---- MODULE Spec2Model ----
(***************************************************************************)
(* Result-resolution and credibility-scoring pipeline of fightcred-api.    *)
(*                                                                         *)
(* The storage tables (fights, predictions, credibility_log,               *)
(* user_profiles, user_fighter_stats) are the shared state.  Every tRPC    *)
(* handler and every poll cycle is an async function: it runs in a request *)
(* context and gives up control at each awaited storage statement, so one  *)
(* action of the model is one awaited statement together with the          *)
(* synchronous code that follows it up to the next await.                  *)
(***************************************************************************)
EXTENDS Integers, Sequences, FiniteSets, TLC

\* ---------------------------------------------------------------- bounds
NumFights == 2
NumUsers == 1
NumReqs == 2
MaxOps == 3
MaxFailures == 1

Fights == 1..NumFights
Users == 1..NumUsers
\* a fight id that is in no row of the fights table
UnknownFight == NumFights + 1
FightIds == Fights \cup {UnknownFight}
\* request contexts that can be in flight at the same time
Reqs == 1..NumReqs

\* ------------------------------------------------------- nullable values
NULL == "null"
None == <<>>
Some(x) == <<x>>

\* ------------------------------------------------------------- the rows
fighter1Name == "Alpha"
fighter2Name == "Bravo"
\* the server clock (new Date()) during the run, and the scheduledStartTime of
\* the fight rows: fight 1 is past its start time, the later ones are not
now == 0
scheduledStartTime(f) == f - 1

\* a fights row as fights.create leaves it: fighter 1 the favourite at -200,
\* fighter 2 the underdog at +150
NewFight(f) ==
  [status |-> "upcoming", winner |-> NULL, finishType |-> NULL, method |-> NULL,
   odds1 |-> Some(0 - 200), odds2 |-> Some(150),
   scheduledStartTime |-> scheduledStartTime(f)]

\* INSERT INTO predictions: the columns not given take their defaults
NewPrediction(id, userId, fightId, data) ==
  [id |-> id, userId |-> userId, fightId |-> fightId,
   pickedWinner |-> data.pickedWinner,
   pickedFinishType |-> data.pickedFinishType,
   pickedMethod |-> data.pickedMethod,
   isLocked |-> FALSE, status |-> "pending",
   winnerPoints |-> 0, finishTypePoints |-> 0, methodPoints |-> 0,
   bonusPoints |-> 0, totalPoints |-> 0,
   oddsAtPrediction |-> data.oddsAtPrediction]

NewProfile ==
  [credibilityScore |-> 0, tier |-> "rookie",
   totalPicks |-> 0, correctPicks |-> 0,
   correctFinishPicks |-> 0, totalFinishPicks |-> 0,
   correctMethodPicks |-> 0, totalMethodPicks |-> 0,
   correctUnderdogPicks |-> 0, totalUnderdogPicks |-> 0,
   currentStreak |-> 0, bestStreak |-> 0]

\* results an admin sends to fights.resolve / admin.resolveFight; the winner is
\* any string (z.string()), so it may name neither fighter
Results ==
  { [winner |-> fighter1Name, finishType |-> "finish", method |-> "tko_ko"],
    [winner |-> "Charlie", finishType |-> "decision", method |-> "decision"] }

\* picks a user sends to predictions.submit (NULL: optional field left out)
Picks ==
  { [pickedWinner |-> fighter1Name, pickedFinishType |-> "finish", pickedMethod |-> "tko_ko"],
    [pickedWinner |-> fighter2Name, pickedFinishType |-> NULL, pickedMethod |-> NULL] }

\* ------------------------------------------- the scoreboard (result-poller.ts)
\* the characters of the names and texts that occur on the scoreboard
Chars(s) ==
  CASE s = "Alpha" -> <<"A", "l", "p", "h", "a">>
    [] s = "Bravo" -> <<"B", "r", "a", "v", "o">>
    [] s = "Al" -> <<"A", "l">>
    [] s = "A." -> <<"A", ".">>
    [] s = "Charlie" -> <<"C", "h", "a", "r", "l", "i", "e">>
    [] s = "Al Bravo" -> <<"A", "l", " ", "B", "r", "a", "v", "o">>
    [] s = "Cy Bravo" -> <<"C", "y", " ", "B", "r", "a", "v", "o">>
    [] s = "Al Charlie" -> <<"A", "l", " ", "C", "h", "a", "r", "l", "i", "e">>
    [] s = "Submission" -> <<"S", "u", "b", "m", "i", "s", "s", "i", "o", "n">>
    [] s = "sub" -> <<"s", "u", "b">>
    [] s = "ko" -> <<"k", "o">>
    [] s = "tko" -> <<"t", "k", "o">>
    [] s = "knockout" -> <<"k", "n", "o", "c", "k", "o", "u", "t">>
    [] s = "choke" -> <<"c", "h", "o", "k", "e">>
    [] s = "lock" -> <<"l", "o", "c", "k">>
    [] s = "triangle" -> <<"t", "r", "i", "a", "n", "g", "l", "e">>
    [] s = "draw" -> <<"d", "r", "a", "w">>
    [] s = "no contest" -> <<"n", "o", " ", "c", "o", "n", "t", "e", "s", "t">>
    [] s = "nc" -> <<"n", "c">>

\* String.prototype.toLowerCase on the characters above
toLowerCase(cs) ==
  [i \in DOMAIN cs |->
     CASE cs[i] = "A" -> "a" [] cs[i] = "B" -> "b" [] cs[i] = "C" -> "c"
       [] cs[i] = "S" -> "s" [] OTHER -> cs[i]]

\* String.prototype.includes
includes(a, b) == \E i \in 0..(Len(a) - Len(b)) : SubSeq(a, i + 1, i + Len(b)) = b

\* String.prototype.split(" ").pop()
RECURSIVE lastToken(_)
lastToken(cs) ==
  IF \E i \in DOMAIN cs : cs[i] = " "
    THEN lastToken(Tail(cs))
    ELSE cs

\* s.toLowerCase().replace(/[^a-z]/g, ""): every character that is not a
\* lower-case letter is dropped, blanks included
normalize(cs) ==
  SelectSeq(toLowerCase(cs),
            LAMBDA c : c \in {"a", "b", "c", "d", "e", "f", "g", "h", "i", "j", "k", "l", "m",
                              "n", "o", "p", "q", "r", "s", "t", "u", "v", "w", "x", "y", "z"})

fuzzyMatch(a, b) ==
  LET na == normalize(Chars(a))
      nb == normalize(Chars(b))
      lastA == lastToken(na)
      lastB == lastToken(nb)
  IN \/ na = nb
     \/ Len(lastA) > 3 /\ lastA = lastB
     \/ includes(na, nb) \/ includes(nb, na)

normalizeMethod(text) ==
  LET t == toLowerCase(Chars(text))
      has(word) == includes(t, Chars(word))
  IN IF has("ko") \/ has("tko") \/ has("knockout") THEN "tko_ko"
     ELSE IF has("sub") \/ has("choke") \/ has("lock") \/ has("triangle") THEN "submission"
     ELSE IF has("draw") THEN "draw"
     ELSE IF has("no contest") \/ has("nc") THEN "nc"
     ELSE "decision"

normalizeFinishType(method) ==
  IF method = "tko_ko" \/ method = "submission" THEN "finish" ELSE "decision"

\* the first element of a list that satisfies a test (Array.prototype.find);
\* test[i] is the value of the callback on list[i]
find(list, test) ==
  LET hits == {i \in DOMAIN list : test[i]}
  IN IF hits # {}
     THEN Some(list[CHOOSE i \in hits : \A j \in hits : i <= j])
     ELSE None

\* a competition of two competitors, of which number w (0: none) is flagged
\* as the winner, with the method text "Submission"
Competition(a, b, w, completed) ==
  [completed |-> completed,
   description |-> "Submission",
   competitors |-> << [displayName |-> a, winner |-> w = 1],
                      [displayName |-> b, winner |-> w = 2] >>]

\* what the scoreboard holds for one pending fight: the event that
\* espnEvents.find returns for the fight's event, if any, with its
\* competitions.  "Al" and "A." are contained in "Alpha", "A." also in
\* "Bravo"; "Charlie" is in neither.
ESPNEvents ==
  { None, Some([competitions |-> <<>>]) }
  \cup { Some([competitions |-> <<comp>>]) :
           comp \in { Competition("Alpha", "Charlie", 1, TRUE),
                      Competition("Al", "Bravo", 1, FALSE),
                      Competition("Al", "Bravo", 0, TRUE),
                      Competition("A.", "Charlie", 2, TRUE),
                      Competition("Al", "Bravo", 1, TRUE),
                      Competition("Alpha", "Bravo", 1, TRUE) } }

\* variant: the completed flag of the competition is not looked at
MatchResultOfAnyStatus(matchingESPNEvent) ==
  IF matchingESPNEvent = None THEN None
  ELSE
    LET competitions == matchingESPNEvent[1].competitions
        names(comp) == {comp.competitors[i].displayName : i \in DOMAIN comp.competitors}
        matchingComp ==
          find(competitions,
               [i \in DOMAIN competitions |->
                  /\ \E n \in names(competitions[i]) : fuzzyMatch(n, fighter1Name)
                  /\ \E n \in names(competitions[i]) : fuzzyMatch(n, fighter2Name)])
    IN IF matchingComp = None THEN None
       ELSE
         LET competitors == matchingComp[1].competitors
             winner == find(competitors, [i \in DOMAIN competitors |-> competitors[i].winner])
         IN IF winner = None THEN None
            ELSE
              LET winnerName == winner[1].displayName
                  resolvedWinner ==
                    IF fuzzyMatch(winnerName, fighter1Name) THEN fighter1Name
                    ELSE IF fuzzyMatch(winnerName, fighter2Name) THEN fighter2Name
                    ELSE NULL
                  method == normalizeMethod(matchingComp[1].description)
              IN IF resolvedWinner = NULL THEN None
                 ELSE Some([winner |-> resolvedWinner,
                            finishType |-> normalizeFinishType(method),
                            method |-> method])

\* the body of the poller's loop up to db.resolveFight: the result the cycle
\* takes from the scoreboard for a fight, None where the code says continue
MatchResult(matchingESPNEvent) ==
  IF matchingESPNEvent = None THEN None
  ELSE
    LET competitions == matchingESPNEvent[1].competitions
        names(comp) == {comp.competitors[i].displayName : i \in DOMAIN comp.competitors}
        matchingComp ==
          find(competitions,
               [i \in DOMAIN competitions |->
                  /\ \E n \in names(competitions[i]) : fuzzyMatch(n, fighter1Name)
                  /\ \E n \in names(competitions[i]) : fuzzyMatch(n, fighter2Name)])
    IN IF matchingComp = None THEN None
       ELSE IF ~matchingComp[1].completed THEN None
       ELSE
         LET competitors == matchingComp[1].competitors
             winner == find(competitors, [i \in DOMAIN competitors |-> competitors[i].winner])
         IN IF winner = None THEN None
            ELSE
              LET winnerName == winner[1].displayName
                  resolvedWinner ==
                    IF fuzzyMatch(winnerName, fighter1Name) THEN fighter1Name
                    ELSE IF fuzzyMatch(winnerName, fighter2Name) THEN fighter2Name
                    ELSE NULL
                  method == normalizeMethod(matchingComp[1].description)
              IN IF resolvedWinner = NULL THEN None
                 ELSE Some([winner |-> resolvedWinner,
                            finishType |-> normalizeFinishType(method),
                            method |-> method])

\* ------------------------------------------------------ shared/types.ts
Max(a, b) == IF a >= b THEN a ELSE b
Abs(x) == IF x < 0 THEN 0 - x ELSE x
\* Math.round of the rational n/d, d > 0: floor(n/d + 1/2)
RoundDiv(n, d) == (2 * n + d) \div (2 * d)

getTierFromScore(score) ==
  IF score >= 80 THEN "goat"
  ELSE IF score >= 60 THEN "champion"
  ELSE IF score >= 40 THEN "contender"
  ELSE "rookie"

\* the probability as the pair <<numerator, denominator>>
getImpliedProbability(americanOdds) ==
  IF americanOdds > 0
    THEN <<100, americanOdds + 100>>
    ELSE <<Abs(americanOdds), Abs(americanOdds) + 100>>

\* the double Infinity (1 / impliedProb for a probability of 0), above every
\* finite number of points
Infinity == 1000000000

BASE_WINNER == 100
BASE_FINISH == 50
BASE_METHOD == 75

\* the odds from 150 to 501 at which 25 * odds / 100 is k + 1/2 and the
\* double 25 * (odds / 100) lies below it, the quotient odds / 100 having been
\* rounded down to a double: Math.round then gives k, not k + 1
RoundedDownOdds == {226, 230, 402, 406, 410, 414}

\* variant: the points for the finish type are given whoever won
FinishTypePointsAnyWinner(correctWinner, correctFinish, result) ==
  IF correctFinish
    THEN (IF result.finishType = "finish" THEN RoundDiv(BASE_FINISH * 3, 2) ELSE BASE_FINISH)
    ELSE 0

\* let finishTypePoints: Math.round(BASE_FINISH * 1.5) or BASE_FINISH
FinishTypePoints(correctWinner, correctFinish, result) ==
  IF correctWinner /\ correctFinish
    THEN (IF result.finishType = "finish" THEN RoundDiv(BASE_FINISH * 3, 2) ELSE BASE_FINISH)
    ELSE 0

\* variant: only a knockout is a method that earns points
MethodPointsTkoOnly(correctWinner, prediction, result) ==
  LET resultMethod ==
        IF result.method = "tko_ko" THEN "tko_ko" ELSE NULL
  IN IF /\ correctWinner
        /\ prediction.pickedFinishType = "finish"
        /\ result.finishType = "finish"
        /\ prediction.pickedMethod # NULL
        /\ resultMethod # NULL
        /\ prediction.pickedMethod = resultMethod
       THEN BASE_METHOD ELSE 0

\* let methodPoints
MethodPoints(correctWinner, prediction, result) ==
  LET resultMethod ==
        IF result.method = "tko_ko" THEN "tko_ko"
        ELSE IF result.method = "submission" THEN "submission" ELSE NULL
  IN IF /\ correctWinner
        /\ prediction.pickedFinishType = "finish"
        /\ result.finishType = "finish"
        /\ prediction.pickedMethod # NULL
        /\ resultMethod # NULL
        /\ prediction.pickedMethod = resultMethod
       THEN BASE_METHOD ELSE 0

\* let underdogBonus: Math.round(25 * (pickedFighterOdds / 100)) in doubles
UnderdogBonus(correctWinner, pickedFighterOdds) ==
  IF correctWinner /\ pickedFighterOdds # None /\ pickedFighterOdds[1] >= 150
    THEN IF pickedFighterOdds[1] \in RoundedDownOdds
           THEN RoundDiv(25 * pickedFighterOdds[1], 100) - 1
           ELSE RoundDiv(25 * pickedFighterOdds[1], 100)
    ELSE 0

\* variant: the bracket of the heavy favourites ends below -150
PenaltyOpenBracket(correctWinner, pickedFighterOdds) ==
  IF correctWinner THEN 0
  ELSE IF pickedFighterOdds = None THEN 0 - 50
  ELSE IF pickedFighterOdds[1] <= 0 - 300 THEN 0 - 100
  ELSE IF pickedFighterOdds[1] < 0 - 150 THEN 0 - 75
  ELSE IF pickedFighterOdds[1] <= 0 - 110 THEN 0 - 50
  ELSE IF pickedFighterOdds[1] <= 110 THEN 0 - 35
  ELSE 0 - 20

\* let penalty
Penalty(correctWinner, pickedFighterOdds) ==
  IF correctWinner THEN 0
  ELSE IF pickedFighterOdds = None THEN 0 - 50
  ELSE IF pickedFighterOdds[1] <= 0 - 300 THEN 0 - 100
  ELSE IF pickedFighterOdds[1] <= 0 - 150 THEN 0 - 75
  ELSE IF pickedFighterOdds[1] <= 0 - 110 THEN 0 - 50
  ELSE IF pickedFighterOdds[1] <= 110 THEN 0 - 35
  ELSE 0 - 20

calculateCredibility(prediction, result, pickedFighterOdds) ==
  LET known == pickedFighterOdds # None
      odds == pickedFighterOdds[1]
      correctWinner == prediction.pickedWinner = result.winner
      impliedProb == IF known THEN getImpliedProbability(odds) ELSE <<1, 2>>
      \* BASE_WINNER * multiplier, multiplier = 1 / impliedProb; 1 / 0 is
      \* Infinity, and so are its product and the rounding of it
      winnerPoints ==
        IF ~correctWinner THEN 0
        ELSE IF impliedProb[1] = 0 THEN Infinity
        ELSE RoundDiv(BASE_WINNER * impliedProb[2], impliedProb[1])
      correctFinish == prediction.pickedFinishType = result.finishType
      finishTypePoints == FinishTypePoints(correctWinner, correctFinish, result)
      methodPoints == MethodPoints(correctWinner, prediction, result)
      underdogBonus == UnderdogBonus(correctWinner, pickedFighterOdds)
      isPerfect ==
        correctWinner /\ correctFinish /\ (result.finishType = "decision" \/ methodPoints > 0)
      perfectPickBonus == IF isPerfect THEN 50 ELSE 0
      penalty == Penalty(correctWinner, pickedFighterOdds)
      totalPoints ==
        IF ~correctWinner THEN penalty
        ELSE IF winnerPoints = Infinity THEN Infinity
        ELSE winnerPoints + finishTypePoints + methodPoints + underdogBonus + perfectPickBonus
  IN [winnerPoints |-> winnerPoints,
      finishTypePoints |-> finishTypePoints,
      methodPoints |-> methodPoints,
      underdogBonus |-> underdogBonus,
      perfectPickBonus |-> perfectPickBonus,
      totalPoints |-> totalPoints,
      penalty |-> penalty,
      impliedProbability |-> RoundDiv(100 * impliedProb[1], impliedProb[2])]

\* ------------------------------------------------------------ the state
VARIABLES
  fights,        \* fights table: fight id -> row
  predictions,   \* predictions table in id order; the id is the index
  credLog,       \* credibility_log table in insertion order
  profiles,      \* user_profiles table: userId -> Some(row) or None
  fighterStats,  \* user_fighter_stats table in id order
  reqs,          \* request context -> the handler running in it and its locals
  opsStarted,    \* number of handler invocations so far
  passDone,      \* history: fights for which a scoring pass ran to its end
  rerun,         \* history: see ResolveStart
  adminToken,    \* ENV.adminToken of the deployment, "" when none is configured
  alive,         \* the host process (node) is running
  denied,        \* history: number of calls answered "Unauthorized" / "Admin only"
  failures,      \* history: number of storage statements that threw
  pollerInterval,\* result-poller.ts: TRUE when it holds a timer handle, FALSE when null
  timers,        \* number of armed setInterval timers whose callback starts a cycle
  calc           \* the arguments and the value of one evaluation of the scoring functions

vars == <<fights, predictions, credLog, profiles, fighterStats, reqs,
          opsStarted, passDone, rerun, adminToken, alive, denied, failures,
          pollerInterval, timers, calc>>

\* the deployment and the history of rejected calls and storage errors
env == <<adminToken, alive, denied, failures, pollerInterval, timers, calc>>

\* the poller's timer and the evaluation record, which no handler touches
aside == <<pollerInterval, timers, calc>>

Idle == [op |-> "idle"]
IsIdle(r) == reqs[r].op = "idle"
\* a new invocation runs in the first free context
CanStart(r) ==
  /\ alive
  /\ IsIdle(r)
  /\ \A q \in Reqs : q < r => ~IsIdle(q)
  /\ opsStarted < MaxOps

\* ------------------------------------------------------- authorization
\* who calls an admin operation: fights.resolve and fights.lock check the role
\* of the logged-in user, admin.resolveFight, admin.lockFight and
\* admin.triggerPoll check the token of the input
Callers ==
  {[entry |-> "fights", role |-> role, token |-> ""] : role \in {"user", "admin"}}
  \cup {[entry |-> "admin", role |-> "user", token |-> token] :
           token \in {"", "secret", "guess"}}

\* variant: the token is compared without the test that one is configured
AuthorizedTokenEquals(caller) ==
  IF caller.entry = "fights"
    THEN caller.role = "admin"
    ELSE caller.token = adminToken

Authorized(caller) ==
  IF caller.entry = "fights"
    THEN caller.role = "admin"
    ELSE ~(adminToken = "") /\ caller.token = adminToken

\* throw new Error("Admin only") / throw new Error("Unauthorized")
Unauthorized ==
  /\ denied' = denied + 1
  /\ UNCHANGED <<fights, predictions, credLog, profiles, fighterStats, reqs,
                 passDone, rerun, adminToken, alive, failures, aside>>

\* the values handed to upsertPrediction, with the odds of the picked side
SubmitData(fight, input) ==
  [pickedWinner |-> input.pickedWinner,
   pickedFinishType |-> input.pickedFinishType,
   pickedMethod |-> input.pickedMethod,
   oddsAtPrediction |-> IF input.pickedWinner = fighter1Name THEN fight.odds1 ELSE fight.odds2]

\* the pick the first user has submitted on fight 1 before the run
FirstPick ==
  [pickedWinner |-> fighter1Name, pickedFinishType |-> "finish", pickedMethod |-> "tko_ko"]

\* the server as startServer leaves it, once the fights are created and the
\* first user has submitted a pick on fight 1: the poller is started, no
\* request is in flight
Started ==
  /\ fights = [f \in Fights |-> NewFight(f)]
  /\ predictions = << NewPrediction(1, 1, 1, SubmitData(NewFight(1), FirstPick)) >>
  /\ credLog = <<>>
  /\ profiles \in [Users -> {None, Some(NewProfile)}]
  /\ fighterStats = <<>>
  /\ reqs = [r \in Reqs |-> Idle]
  /\ opsStarted = 0
  /\ passDone = {}
  /\ rerun = [r \in Reqs |-> 0]
  /\ adminToken \in {"", "secret"}
  /\ alive = TRUE
  /\ denied = 0
  /\ failures = 0
  /\ pollerInterval = TRUE
  /\ timers = 1

\* no evaluation of the scoring functions is recorded
NoCalc == [pc |-> "none"]

Init == Started /\ calc = NoCalc

\* ------------------------------------------------------ storage (db.ts)
getFightById(id) == IF id \in DOMAIN fights THEN Some(fights[id]) ELSE None

\* variant: the UPDATE without its WHERE clause
resolveFightEveryRow(fightId, winner, finishType, method) ==
  [f \in DOMAIN fights |->
     [fights[f] EXCEPT !.winner = winner, !.finishType = finishType,
                       !.method = method, !.status = "completed"]]

\* UPDATE fights SET winner, finishType, method, status = 'completed' WHERE id = fightId
resolveFight(fightId, winner, finishType, method) ==
  [f \in DOMAIN fights |->
     IF f = fightId
       THEN [fights[f] EXCEPT !.winner = winner, !.finishType = finishType,
                              !.method = method, !.status = "completed"]
       ELSE fights[f]]

\* UPDATE fights SET status = 'live' WHERE id = fightId
setFightLive(fightId) ==
  [f \in DOMAIN fights |->
     IF f = fightId THEN [fights[f] EXCEPT !.status = "live"] ELSE fights[f]]

getPredictionsForFight(fightId) ==
  SelectSeq(predictions, LAMBDA p : p.fightId = fightId)

getPredictionByUserAndFight(userId, fightId) ==
  LET rows == SelectSeq(predictions, LAMBDA p : p.userId = userId /\ p.fightId = fightId)
  IN IF Len(rows) > 0 THEN Some(rows[1]) ELSE None

\* UPDATE predictions SET isLocked = true WHERE fightId = fightId
lockPredictionsForFight(fightId) ==
  [i \in DOMAIN predictions |->
     IF predictions[i].fightId = fightId
       THEN [predictions[i] EXCEPT !.isLocked = TRUE]
       ELSE predictions[i]]

getUserProfile(userId) == profiles[userId]

\* UPDATE user_profiles SET data WHERE userId = userId (no row: nothing changes)
updateUserProfile(userId, data) ==
  [u \in DOMAIN profiles |->
     IF u = userId /\ profiles[u] # None THEN Some(data) ELSE profiles[u]]

\* ------------------------------------------------- predictions.submit
\* getFightById, the status check and the odds snapshot
SubmitStart(r, userId, fightId, input) ==
  /\ CanStart(r)
  /\ opsStarted' = opsStarted + 1
  /\ LET fight == getFightById(fightId)
         rejected == \/ fight = None
                     \/ fight[1].status = "live"
                     \/ fight[1].status = "completed"
     IN reqs' = [reqs EXCEPT ![r] =
          IF rejected THEN Idle
          ELSE [op |-> "submit", pc |-> "upsertSelect", userId |-> userId,
                fightId |-> fightId, data |-> SubmitData(fight[1], input)]]
  /\ UNCHANGED env
  /\ UNCHANGED <<fights, predictions, credLog, profiles, fighterStats, passDone, rerun>>

\* upsertPrediction: the SELECT of the existing row and the isLocked check
SubmitSelect(r) ==
  /\ reqs[r].op = "submit" /\ reqs[r].pc = "upsertSelect"
  /\ LET existing == getPredictionByUserAndFight(reqs[r].userId, reqs[r].fightId)
     IN reqs' = [reqs EXCEPT ![r] =
          IF existing # None /\ existing[1].isLocked THEN Idle
          ELSE [reqs[r] EXCEPT !.pc = "upsertWrite"] @@ [existing |-> existing]]
  /\ UNCHANGED env
  /\ UNCHANGED <<fights, predictions, credLog, profiles, fighterStats,
                 opsStarted, passDone, rerun>>

\* a field the caller left undefined is not part of an UPDATE's SET list
SetIfDefined(old, new, undefined) == IF new = undefined THEN old ELSE new

\* upsertPrediction: UPDATE ... WHERE id = existing.id, or INSERT
SubmitWrite(r) ==
  /\ reqs[r].op = "submit" /\ reqs[r].pc = "upsertWrite"
  /\ LET existing == reqs[r].existing
         data == reqs[r].data
     IN predictions' =
          IF existing # None
            THEN [i \in DOMAIN predictions |->
                    IF i = existing[1].id
                      THEN [predictions[i] EXCEPT
                              !.pickedWinner = data.pickedWinner,
                              !.pickedFinishType = SetIfDefined(@, data.pickedFinishType, NULL),
                              !.pickedMethod = SetIfDefined(@, data.pickedMethod, NULL),
                              !.oddsAtPrediction = SetIfDefined(@, data.oddsAtPrediction, None)]
                      ELSE predictions[i]]
            ELSE Append(predictions,
                   NewPrediction(Len(predictions) + 1, reqs[r].userId, reqs[r].fightId, data))
  /\ reqs' = [reqs EXCEPT ![r] = Idle]
  /\ UNCHANGED env
  /\ UNCHANGED <<fights, credLog, profiles, fighterStats, opsStarted, passDone, rerun>>

\* ------------------------------------- fights.lock and admin.lockFight
\* lockPredictionsForFight
LockStart(r, caller, fightId) ==
  /\ CanStart(r)
  /\ opsStarted' = opsStarted + 1
  /\ IF ~Authorized(caller) THEN Unauthorized
     ELSE /\ predictions' = lockPredictionsForFight(fightId)
          /\ reqs' = [reqs EXCEPT ![r] =
               [op |-> "lock", pc |-> "setLive", fightId |-> fightId]]
          /\ UNCHANGED env
          /\ UNCHANGED <<fights, credLog, profiles, fighterStats, passDone, rerun>>

LockSetLive(r) ==
  /\ reqs[r].op = "lock" /\ reqs[r].pc = "setLive"
  /\ fights' = setFightLive(reqs[r].fightId)
  /\ reqs' = [reqs EXCEPT ![r] = Idle]
  /\ UNCHANGED env
  /\ UNCHANGED <<predictions, credLog, profiles, fighterStats, opsStarted, passDone, rerun>>

\* ------------------------------------------ the scoring of a prediction
\* (the loop body of fights.resolve, admin.resolveFight and pollFightResults)
PickedOdds(fight, pred) ==
  IF pred.pickedWinner = fighter1Name THEN fight.odds1 ELSE fight.odds2

Breakdown(fight, pred, result) ==
  calculateCredibility(
    [pickedWinner |-> pred.pickedWinner, pickedFinishType |-> pred.pickedFinishType,
     pickedMethod |-> pred.pickedMethod],
    result, PickedOdds(fight, pred))

CorrectWinner(pred, result) == pred.pickedWinner = result.winner
CorrectFinish(pred, result) == pred.pickedFinishType = result.finishType
CorrectMethod(pred, result) ==
  /\ result.finishType = "finish"
  /\ pred.pickedFinishType = "finish"
  /\ pred.pickedMethod # NULL
  /\ \/ result.method = "tko_ko" /\ pred.pickedMethod = "tko_ko"
     \/ result.method = "submission" /\ pred.pickedMethod = "submission"

\* variant: a pick with the winner and the finish type right is correct
StatusIgnoringMethod(pred, result) ==
  IF CorrectWinner(pred, result) /\ CorrectFinish(pred, result) THEN "correct"
  ELSE IF CorrectWinner(pred, result) \/ CorrectFinish(pred, result) THEN "partial"
  ELSE "wrong"

Status(pred, result) ==
  IF /\ CorrectWinner(pred, result)
     /\ CorrectFinish(pred, result)
     /\ (result.finishType = "decision" \/ CorrectMethod(pred, result))
    THEN "correct"
  ELSE IF CorrectWinner(pred, result) \/ CorrectFinish(pred, result)
    THEN "partial"
  ELSE "wrong"

\* variant: the tier is taken from the score read, not from the new score
FoldTierOfOldScore(profile, fight, pred, result) ==
  LET breakdown == Breakdown(fight, pred, result)
      pickedOdds == PickedOdds(fight, pred)
      correctWinner == CorrectWinner(pred, result)
      isUnderdog == pickedOdds # None /\ pickedOdds[1] >= 150
      newScore == profile.credibilityScore + breakdown.totalPoints
      newStreak == IF correctWinner THEN profile.currentStreak + 1 ELSE 0
      inc(b) == IF b THEN 1 ELSE 0
  IN [credibilityScore |-> newScore,
      tier |-> getTierFromScore(profile.credibilityScore),
      totalPicks |-> profile.totalPicks + 1,
      correctPicks |-> profile.correctPicks + inc(correctWinner),
      correctFinishPicks |-> profile.correctFinishPicks + inc(CorrectFinish(pred, result)),
      totalFinishPicks |-> profile.totalFinishPicks + inc(pred.pickedFinishType # NULL),
      correctMethodPicks |-> profile.correctMethodPicks + inc(CorrectMethod(pred, result)),
      totalMethodPicks |-> profile.totalMethodPicks + inc(pred.pickedMethod # NULL),
      correctUnderdogPicks |-> profile.correctUnderdogPicks + inc(isUnderdog /\ correctWinner),
      totalUnderdogPicks |-> profile.totalUnderdogPicks + inc(isUnderdog),
      currentStreak |-> newStreak,
      bestStreak |-> Max(profile.bestStreak, newStreak)]

\* variant: a pick with a method is not counted in totalMethodPicks
FoldWithoutMethodTotal(profile, fight, pred, result) ==
  LET breakdown == Breakdown(fight, pred, result)
      pickedOdds == PickedOdds(fight, pred)
      correctWinner == CorrectWinner(pred, result)
      isUnderdog == pickedOdds # None /\ pickedOdds[1] >= 150
      newScore == profile.credibilityScore + breakdown.totalPoints
      newStreak == IF correctWinner THEN profile.currentStreak + 1 ELSE 0
      inc(b) == IF b THEN 1 ELSE 0
  IN [credibilityScore |-> newScore,
      tier |-> getTierFromScore(newScore),
      totalPicks |-> profile.totalPicks + 1,
      correctPicks |-> profile.correctPicks + inc(correctWinner),
      correctFinishPicks |-> profile.correctFinishPicks + inc(CorrectFinish(pred, result)),
      totalFinishPicks |-> profile.totalFinishPicks + inc(pred.pickedFinishType # NULL),
      correctMethodPicks |-> profile.correctMethodPicks + inc(CorrectMethod(pred, result)),
      totalMethodPicks |-> profile.totalMethodPicks,
      correctUnderdogPicks |-> profile.correctUnderdogPicks + inc(isUnderdog /\ correctWinner),
      totalUnderdogPicks |-> profile.totalUnderdogPicks + inc(isUnderdog),
      currentStreak |-> newStreak,
      bestStreak |-> Max(profile.bestStreak, newStreak)]

\* the row written by updateUserProfile, computed from the row read before it
Fold(profile, fight, pred, result) ==
  LET breakdown == Breakdown(fight, pred, result)
      pickedOdds == PickedOdds(fight, pred)
      correctWinner == CorrectWinner(pred, result)
      isUnderdog == pickedOdds # None /\ pickedOdds[1] >= 150
      newScore == profile.credibilityScore + breakdown.totalPoints
      newStreak == IF correctWinner THEN profile.currentStreak + 1 ELSE 0
      inc(b) == IF b THEN 1 ELSE 0
  IN [credibilityScore |-> newScore,
      tier |-> getTierFromScore(newScore),
      totalPicks |-> profile.totalPicks + 1,
      correctPicks |-> profile.correctPicks + inc(correctWinner),
      correctFinishPicks |-> profile.correctFinishPicks + inc(CorrectFinish(pred, result)),
      totalFinishPicks |-> profile.totalFinishPicks + inc(pred.pickedFinishType # NULL),
      correctMethodPicks |-> profile.correctMethodPicks + inc(CorrectMethod(pred, result)),
      totalMethodPicks |-> profile.totalMethodPicks + inc(pred.pickedMethod # NULL),
      correctUnderdogPicks |-> profile.correctUnderdogPicks + inc(isUnderdog /\ correctWinner),
      totalUnderdogPicks |-> profile.totalUnderdogPicks + inc(isUnderdog),
      currentStreak |-> newStreak,
      bestStreak |-> Max(profile.bestStreak, newStreak)]

\* the values the loop body of fights.resolve (and of admin.resolveFight, the
\* same text) writes for one prediction: the SET list of the prediction row,
\* the credibility-log entry and the arguments of upsertFighterStat
Scored(fightId, fight, pred, result) ==
  LET breakdown == Breakdown(fight, pred, result)
  IN [prediction |->
        [status |-> Status(pred, result),
         winnerPoints |-> breakdown.winnerPoints,
         finishTypePoints |-> breakdown.finishTypePoints,
         methodPoints |-> breakdown.methodPoints,
         bonusPoints |-> breakdown.underdogBonus + breakdown.perfectPickBonus,
         totalPoints |-> breakdown.totalPoints],
      log |->
        [userId |-> pred.userId, fightId |-> fightId, predictionId |-> pred.id,
         winnerPoints |-> breakdown.winnerPoints,
         finishTypePoints |-> breakdown.finishTypePoints,
         methodPoints |-> breakdown.methodPoints,
         bonusPoints |-> breakdown.underdogBonus + breakdown.perfectPickBonus,
         totalPoints |-> breakdown.totalPoints,
         breakdown |-> breakdown],
      stat |->
        [userId |-> pred.userId, fighterName |-> pred.pickedWinner,
         correct |-> CorrectWinner(pred, result)]]

\* variant: the poller calls a pick correct as soon as the winner matches
PollStatusWinnerOnly(pred, result) ==
  IF pred.pickedWinner = result.winner THEN "correct"
  ELSE IF pred.pickedFinishType = result.finishType THEN "partial"
  ELSE "wrong"

\* the status the loop body of pollFightResults computes
PollStatus(pred, result) ==
  LET correctWinner == pred.pickedWinner = result.winner
      correctFinish == pred.pickedFinishType = result.finishType
      correctMethod ==
        /\ result.finishType = "finish"
        /\ pred.pickedFinishType = "finish"
        /\ pred.pickedMethod # NULL
        /\ \/ result.method = "tko_ko" /\ pred.pickedMethod = "tko_ko"
           \/ result.method = "submission" /\ pred.pickedMethod = "submission"
  IN IF correctWinner /\ correctFinish /\ (result.finishType = "decision" \/ correctMethod)
       THEN "correct"
     ELSE IF correctWinner \/ correctFinish THEN "partial"
     ELSE "wrong"

\* the values the loop body of pollFightResults writes for one prediction
PollScored(fightId, fight, pred, result) ==
  LET pickedFighter1 == pred.pickedWinner = fighter1Name
      pickedOdds == IF pickedFighter1 THEN fight.odds1 ELSE fight.odds2
      breakdown ==
        calculateCredibility(
          [pickedWinner |-> pred.pickedWinner, pickedFinishType |-> pred.pickedFinishType,
           pickedMethod |-> pred.pickedMethod],
          [winner |-> result.winner, finishType |-> result.finishType,
           method |-> result.method],
          pickedOdds)
      correctWinner == pred.pickedWinner = result.winner
  IN [prediction |->
        [status |-> PollStatus(pred, result),
         winnerPoints |-> breakdown.winnerPoints,
         finishTypePoints |-> breakdown.finishTypePoints,
         methodPoints |-> breakdown.methodPoints,
         bonusPoints |-> breakdown.underdogBonus + breakdown.perfectPickBonus,
         totalPoints |-> breakdown.totalPoints],
      log |->
        [userId |-> pred.userId, fightId |-> fightId, predictionId |-> pred.id,
         winnerPoints |-> breakdown.winnerPoints,
         finishTypePoints |-> breakdown.finishTypePoints,
         methodPoints |-> breakdown.methodPoints,
         bonusPoints |-> breakdown.underdogBonus + breakdown.perfectPickBonus,
         totalPoints |-> breakdown.totalPoints,
         breakdown |-> breakdown],
      stat |->
        [userId |-> pred.userId, fighterName |-> pred.pickedWinner,
         correct |-> correctWinner]]

\* the row written by the poller's updateUserProfile
PollFold(profile, fight, pred, result) ==
  LET pickedFighter1 == pred.pickedWinner = fighter1Name
      pickedOdds == IF pickedFighter1 THEN fight.odds1 ELSE fight.odds2
      totalPoints == PollScored(0, fight, pred, result).prediction.totalPoints
      correctWinner == pred.pickedWinner = result.winner
      correctFinish == pred.pickedFinishType = result.finishType
      correctMethod ==
        /\ result.finishType = "finish"
        /\ pred.pickedFinishType = "finish"
        /\ pred.pickedMethod # NULL
        /\ \/ result.method = "tko_ko" /\ pred.pickedMethod = "tko_ko"
           \/ result.method = "submission" /\ pred.pickedMethod = "submission"
      isUnderdog == pickedOdds # None /\ pickedOdds[1] >= 150
      newScore == profile.credibilityScore + totalPoints
      newTier == getTierFromScore(newScore)
      newStreak == IF correctWinner THEN profile.currentStreak + 1 ELSE 0
      one(b) == IF b THEN 1 ELSE 0
  IN [credibilityScore |-> newScore,
      tier |-> newTier,
      totalPicks |-> profile.totalPicks + 1,
      correctPicks |-> profile.correctPicks + one(correctWinner),
      correctFinishPicks |-> profile.correctFinishPicks + one(correctFinish),
      totalFinishPicks |-> profile.totalFinishPicks + one(pred.pickedFinishType # NULL),
      correctMethodPicks |-> profile.correctMethodPicks + one(correctMethod),
      totalMethodPicks |-> profile.totalMethodPicks + one(pred.pickedMethod # NULL),
      correctUnderdogPicks |-> profile.correctUnderdogPicks + one(isUnderdog /\ correctWinner),
      totalUnderdogPicks |-> profile.totalUnderdogPicks + one(isUnderdog),
      currentStreak |-> newStreak,
      bestStreak |-> Max(profile.bestStreak, newStreak)]

\* the loop body that runs in the context s: the poller's or a resolve's
ScoredBy(s, pred) ==
  IF s.op = "poll"
    THEN PollScored(s.fightId, s.fight, pred, s.result)
    ELSE Scored(s.fightId, s.fight, pred, s.result)

FoldBy(s, pred) ==
  IF s.op = "poll"
    THEN PollFold(s.profile[1], s.fight, pred, s.result)
    ELSE Fold(s.profile[1], s.fight, pred, s.result)

\* the locals of a context that scores the predictions of fight fightId
Scoring(op, pc, fightId, result, fight, pending, feed, k) ==
  [op |-> op, pc |-> pc, fightId |-> fightId, result |-> result, fight |-> fight,
   preds |-> <<>>, i |-> 0, profile |-> None, existing |-> None,
   pending |-> pending, feed |-> feed, k |-> k,
   resolved |-> 0, errors |-> <<>>, fetches |-> 0, fetchFailed |-> FALSE]

InScoring(r, pc) == reqs[r].op \in {"resolve", "poll"} /\ reqs[r].pc = pc
Pred(r) == reqs[r].preds[reqs[r].i]

\* pollFightResults: the next pending fight after the k-th for which the feed
\* has a completed competition with a matching winner, or the end of the cycle
PollNext(s, k) ==
  LET rest == {j \in (k + 1)..Len(s.pending) : s.feed[j] # None}
      j == CHOOSE x \in rest : \A y \in rest : x <= y
      next == IF rest = {}
                THEN Scoring("poll", "return", 0, NULL, None, <<>>, <<>>, 0)
                ELSE Scoring("poll", "pollResolve", s.pending[j].id, s.feed[j][1],
                             s.pending[j].fight, s.pending, s.feed, j)
  IN [next EXCEPT !.resolved = s.resolved, !.errors = s.errors,
                  !.fetches = s.fetches, !.fetchFailed = s.fetchFailed]

\* the context after the last prediction of the fight has been scored:
\* resolved++ in the poller, the return of the handler in a resolve
AfterFight(s) ==
  IF s.op = "poll" THEN PollNext([s EXCEPT !.resolved = @ + 1], s.k) ELSE Idle

\* variant: the try around the whole loop, so that the catch ends the cycle
CaughtEndsCycle(s) ==
  [Scoring("poll", "return", 0, NULL, None, <<>>, <<>>, 0)
     EXCEPT !.resolved = s.resolved, !.errors = Append(s.errors, s.fightId),
            !.fetches = s.fetches, !.fetchFailed = s.fetchFailed]

\* the catch of the poller's per-fight try: the error is pushed to errors and
\* the loop goes on with the next pending fight
Caught(s) == PollNext([s EXCEPT !.errors = Append(@, s.fightId)], s.k)

\* the context after the prediction at index i has been scored
AfterPred(s) ==
  IF s.i < Len(s.preds)
    THEN [s EXCEPT !.i = s.i + 1, !.pc = "updatePred", !.profile = None, !.existing = None]
    ELSE AfterFight(s)

\* bookkeeping of the history variables for a step of context r
History(r, fightDone) ==
  /\ passDone' = IF fightDone THEN passDone \cup {reqs[r].fightId} ELSE passDone
  /\ rerun' = IF reqs'[r].op = "idle" THEN [rerun EXCEPT ![r] = 0] ELSE rerun

\* getPredictionsForFight; an empty list ends the pass
GetPredictions(r) ==
  /\ InScoring(r, "getPredictions")
  /\ LET allPredictions == getPredictionsForFight(reqs[r].fightId)
     IN reqs' = [reqs EXCEPT ![r] =
          IF Len(allPredictions) = 0 THEN AfterFight(reqs[r])
          ELSE [reqs[r] EXCEPT !.preds = allPredictions, !.i = 1, !.pc = "updatePred"]]
  /\ History(r, Len(getPredictionsForFight(reqs[r].fightId)) = 0)
  /\ UNCHANGED env
  /\ UNCHANGED <<fights, predictions, credLog, profiles, fighterStats, opsStarted>>

\* UPDATE predictions SET status, points WHERE id = pred.id.  The points
\* columns are int: a statement that carries Infinity is rejected and throws,
\* which ends a tRPC handler and is caught by the poller's per-fight try.
ScoreUpdatePrediction(r) ==
  /\ InScoring(r, "updatePred")
  /\ LET pred == Pred(r)
         set == ScoredBy(reqs[r], pred).prediction
     IN IF set.winnerPoints = Infinity \/ set.totalPoints = Infinity
          THEN /\ reqs' = [reqs EXCEPT ![r] =
                    IF reqs[r].op = "poll" THEN Caught(reqs[r]) ELSE Idle]
               /\ History(r, FALSE)
               /\ UNCHANGED predictions
          ELSE /\ predictions' =
                    [i \in DOMAIN predictions |->
                       IF i = pred.id
                         THEN [predictions[i] EXCEPT
                                 !.status = set.status,
                                 !.winnerPoints = set.winnerPoints,
                                 !.finishTypePoints = set.finishTypePoints,
                                 !.methodPoints = set.methodPoints,
                                 !.bonusPoints = set.bonusPoints,
                                 !.totalPoints = set.totalPoints]
                         ELSE predictions[i]]
               /\ reqs' = [reqs EXCEPT ![r].pc = "insertLog"]
               /\ UNCHANGED <<passDone, rerun>>
  /\ UNCHANGED env
  /\ UNCHANGED <<fights, credLog, profiles, fighterStats, opsStarted>>

\* variant: the entry is written over the last entry of the log
ScoreInsertLogOverLast(r) ==
  /\ InScoring(r, "insertLog")
  /\ credLog' = IF credLog = <<>>
                  THEN <<ScoredBy(reqs[r], Pred(r)).log>>
                  ELSE [credLog EXCEPT ![Len(credLog)] = ScoredBy(reqs[r], Pred(r)).log]
  /\ reqs' = [reqs EXCEPT ![r].pc = "getProfile"]
  /\ UNCHANGED env
  /\ UNCHANGED <<fights, predictions, profiles, fighterStats, opsStarted, passDone, rerun>>

\* insertCredibilityLog
ScoreInsertLog(r) ==
  /\ InScoring(r, "insertLog")
  /\ credLog' = Append(credLog, ScoredBy(reqs[r], Pred(r)).log)
  /\ reqs' = [reqs EXCEPT ![r].pc = "getProfile"]
  /\ UNCHANGED env
  /\ UNCHANGED <<fights, predictions, profiles, fighterStats, opsStarted, passDone, rerun>>

\* getUserProfile; without a profile row the fold is skipped
ScoreGetProfile(r) ==
  /\ InScoring(r, "getProfile")
  /\ LET profile == getUserProfile(Pred(r).userId)
     IN reqs' = [reqs EXCEPT ![r] =
          IF profile = None THEN AfterPred(reqs[r])
          ELSE [reqs[r] EXCEPT !.profile = profile, !.pc = "updateProfile"]]
  /\ History(r, getUserProfile(Pred(r).userId) = None /\ reqs[r].i = Len(reqs[r].preds))
  /\ UNCHANGED env
  /\ UNCHANGED <<fights, predictions, credLog, profiles, fighterStats, opsStarted>>

\* updateUserProfile with the values computed from the profile read before
ScoreUpdateProfile(r) ==
  /\ InScoring(r, "updateProfile")
  /\ profiles' = updateUserProfile(Pred(r).userId, FoldBy(reqs[r], Pred(r)))
  /\ reqs' = [reqs EXCEPT ![r].pc = "statSelect"]
  /\ UNCHANGED env
  /\ UNCHANGED <<fights, predictions, credLog, fighterStats, opsStarted, passDone, rerun>>

\* upsertFighterStat: the SELECT of the existing (userId, fighterName) rows
ScoreStatSelect(r) ==
  /\ InScoring(r, "statSelect")
  /\ LET rows == SelectSeq(fighterStats, LAMBDA st :
                   st.userId = Pred(r).userId /\ st.fighterName = Pred(r).pickedWinner)
     IN reqs' = [reqs EXCEPT ![r].existing = IF Len(rows) > 0 THEN Some(rows[1].id) ELSE None,
                             ![r].pc = "statWrite"]
  /\ UNCHANGED env
  /\ UNCHANGED <<fights, predictions, credLog, profiles, fighterStats,
                 opsStarted, passDone, rerun>>

\* upsertFighterStat: UPDATE totalPicks = totalPicks + 1 WHERE id, or INSERT
ScoreStatWrite(r) ==
  /\ InScoring(r, "statWrite")
  /\ LET pred == Pred(r)
         correct == ScoredBy(reqs[r], pred).stat.correct
         existing == reqs[r].existing
     IN fighterStats' =
          IF existing # None
            THEN [i \in DOMAIN fighterStats |->
                    IF i = existing[1]
                      THEN [fighterStats[i] EXCEPT
                              !.totalPicks = @ + 1,
                              !.correctPicks = IF correct THEN @ + 1 ELSE @]
                      ELSE fighterStats[i]]
            ELSE Append(fighterStats,
                   [id |-> Len(fighterStats) + 1, userId |-> pred.userId,
                    fighterName |-> pred.pickedWinner,
                    totalPicks |-> 1, correctPicks |-> IF correct THEN 1 ELSE 0])
  /\ reqs' = [reqs EXCEPT ![r] = AfterPred(reqs[r])]
  /\ History(r, reqs[r].i = Len(reqs[r].preds))
  /\ UNCHANGED env
  /\ UNCHANGED <<fights, predictions, credLog, profiles, opsStarted>>

\* ------------------------------- fights.resolve and admin.resolveFight
\* db.resolveFight: the unconditional UPDATE of the fight row
ResolveStart(r, caller, fightId, result) ==
  /\ CanStart(r)
  /\ opsStarted' = opsStarted + 1
  /\ IF ~Authorized(caller) THEN Unauthorized
     ELSE /\ fights' = resolveFight(fightId, result.winner, result.finishType, result.method)
          /\ reqs' = [reqs EXCEPT ![r] =
               Scoring("resolve", "getFight", fightId, result, None, <<>>, <<>>, 0)]
          \* history: the invocation number, when this resolve starts with every
          \* other context idle on a fight that is already completed
          /\ rerun' = [rerun EXCEPT ![r] =
               IF /\ fightId \in DOMAIN fights
                  /\ fights[fightId].status = "completed"
                  /\ \A q \in Reqs : IsIdle(q)
                 THEN opsStarted + 1 ELSE 0]
          /\ UNCHANGED env
          /\ UNCHANGED <<predictions, credLog, profiles, fighterStats, passDone>>

\* getFightById; an unknown fight throws "Fight not found"
ResolveGetFight(r) ==
  /\ reqs[r].op = "resolve" /\ reqs[r].pc = "getFight"
  /\ LET fight == getFightById(reqs[r].fightId)
     IN reqs' = [reqs EXCEPT ![r] =
          IF fight = None THEN Idle
          ELSE [reqs[r] EXCEPT !.fight = fight[1], !.pc = "getPredictions"]]
  /\ History(r, FALSE)
  /\ UNCHANGED env
  /\ UNCHANGED <<fights, predictions, credLog, profiles, fighterStats, opsStarted>>

\* ------------------ pollFightResults (interval tick or admin.triggerPoll)
IsPending(fight) ==
  \/ fight.status = "live"
  \/ fight.status = "upcoming" /\ fight.scheduledStartTime <= now

RECURSIVE PendingFrom(_)
PendingFrom(f) ==
  IF f > NumFights THEN <<>>
  ELSE (IF IsPending(fights[f]) THEN <<[id |-> f, fight |-> fights[f]]>> ELSE <<>>)
       \o PendingFrom(f + 1)

\* variant: the scoreboard is fetched whatever the query returns
PollQueryThenFetch(r) ==
  reqs' = [reqs EXCEPT ![r] =
     Scoring("poll", "fetch", 0, NULL, None, PendingFrom(1), <<>>, 0)]

\* the pending-fights query; with no pending fight the cycle returns
\* { resolved: 0, errors: [] } without a fetch
PollQuery(r) ==
  LET pendingFights == PendingFrom(1)
  IN reqs' = [reqs EXCEPT ![r] =
       IF Len(pendingFights) = 0
         THEN Scoring("poll", "return", 0, NULL, None, <<>>, <<>>, 0)
         ELSE Scoring("poll", "fetch", 0, NULL, None, pendingFights, <<>>, 0)]

\* a call of pollFightResults by the poller itself.  When the pending-fights
\* query throws, the promise of pollFightResults is rejected; neither
\* startResultPoller nor the interval callback handles the rejection, and
\* node 20 ends the process on an unhandled rejection.
PollCycle(r, throws) ==
  /\ CanStart(r)
  /\ opsStarted' = opsStarted + 1
  /\ IF throws
       THEN /\ failures < MaxFailures
            /\ failures' = failures + 1
            /\ alive' = FALSE
            /\ reqs' = [q \in Reqs |-> Idle]
            /\ rerun' = [q \in Reqs |-> 0]
            /\ UNCHANGED <<adminToken, denied, calc>>
       ELSE /\ PollQuery(r)
            /\ UNCHANGED rerun
            /\ UNCHANGED <<adminToken, alive, denied, failures, calc>>
  /\ UNCHANGED <<fights, predictions, credLog, profiles, fighterStats, passDone>>

\* the callback of setInterval: an interval tick of an armed timer
PollStart(r, throws) ==
  /\ timers > 0
  /\ PollCycle(r, throws)
  /\ UNCHANGED <<pollerInterval, timers>>

\* variant: startResultPoller without the test of the handle
StartResultPollerUnguarded(r, throws) ==
  /\ PollCycle(r, throws)
  /\ timers' = timers + 1
  /\ pollerInterval' = TRUE

\* startResultPoller: a return when a handle is held, else the immediate
\* cycle and a new interval timer
StartResultPoller(r, throws) ==
  /\ alive
  /\ IF pollerInterval
       THEN UNCHANGED vars
       ELSE /\ PollCycle(r, throws)
            /\ timers' = timers + 1
            /\ pollerInterval' = TRUE

\* variant: the handle is dropped and the timer is left armed
StopResultPollerDropsHandle ==
  /\ alive
  /\ pollerInterval
  /\ pollerInterval' = FALSE
  /\ UNCHANGED <<fights, predictions, credLog, profiles, fighterStats, reqs,
                 opsStarted, passDone, rerun, adminToken, alive, denied, failures,
                 timers, calc>>

\* stopResultPoller: clearInterval(pollerInterval); pollerInterval = null
StopResultPoller ==
  /\ alive
  /\ pollerInterval
  /\ timers' = timers - 1
  /\ pollerInterval' = FALSE
  /\ UNCHANGED <<fights, predictions, credLog, profiles, fighterStats, reqs,
                 opsStarted, passDone, rerun, adminToken, alive, denied, failures, calc>>

\* admin.triggerPoll: the token check, then pollFightResults; a query that
\* throws is answered with an error by the tRPC middleware
TriggerPoll(r, caller, throws) ==
  /\ CanStart(r)
  /\ caller.entry = "admin"
  /\ opsStarted' = opsStarted + 1
  /\ IF ~Authorized(caller) THEN Unauthorized
     ELSE /\ IF throws
               THEN /\ failures < MaxFailures
                    /\ failures' = failures + 1
                    /\ UNCHANGED <<reqs, adminToken, alive, denied, aside>>
               ELSE /\ PollQuery(r)
                    /\ UNCHANGED env
          /\ UNCHANGED <<fights, predictions, credLog, profiles, fighterStats,
                         passDone, rerun>>

\* the answers to the GET of the scoreboard in a cycle with n pending fights:
\* None when the request fails (timeout, network error), else what the
\* scoreboard holds for each pending fight
Responses(n) == {None} \cup {Some(events) : events \in [1..n -> ESPNEvents]}

\* variant: a failed request is answered from a scoreboard that reports the
\* first fighter as the winner of every pending fight
fetchESPNScoreboardNoCatch(n, response) ==
  IF response = None
    THEN [j \in 1..n |->
            Some([competitions |->
              << [completed |-> TRUE, description |-> "Submission",
                  competitors |-> << [displayName |-> fighter1Name, winner |-> TRUE],
                                     [displayName |-> fighter2Name, winner |-> FALSE] >>] >>])]
    ELSE response[1]

\* fetchESPNScoreboard: the events of the response, [] when the request fails
fetchESPNScoreboard(n, response) ==
  IF response = None THEN [j \in 1..n |-> None] ELSE response[1]

\* the cycle s after its fetch got the response: the matching of the pending
\* fights up to the first one the scoreboard has a result for
PollFetched(s, response) ==
  LET n == Len(s.pending)
      espnEvents == fetchESPNScoreboard(n, response)
      feed == [j \in 1..n |-> MatchResult(espnEvents[j])]
  IN PollNext([s EXCEPT !.feed = feed, !.fetches = @ + 1,
                        !.fetchFailed = (response = None)], 0)

PollFetchResponse(r, response) ==
  /\ reqs' = [reqs EXCEPT ![r] = PollFetched(reqs[r], response)]
  /\ UNCHANGED env
  /\ UNCHANGED <<fights, predictions, credLog, profiles, fighterStats,
                 opsStarted, passDone, rerun>>

\* await fetchESPNScoreboard(), once per cycle
PollFetch(r) ==
  /\ reqs[r].op = "poll" /\ reqs[r].pc = "fetch"
  /\ \E response \in Responses(Len(reqs[r].pending)) : PollFetchResponse(r, response)

\* db.resolveFight of the poller
PollResolve(r) ==
  /\ InScoring(r, "pollResolve")
  /\ fights' = resolveFight(reqs[r].fightId, reqs[r].result.winner,
                            reqs[r].result.finishType, reqs[r].result.method)
  /\ reqs' = [reqs EXCEPT ![r].pc = "pollLock"]
  /\ UNCHANGED env
  /\ UNCHANGED <<predictions, credLog, profiles, fighterStats, opsStarted, passDone, rerun>>

\* db.lockPredictionsForFight of the poller
PollLock(r) ==
  /\ InScoring(r, "pollLock")
  /\ predictions' = lockPredictionsForFight(reqs[r].fightId)
  /\ reqs' = [reqs EXCEPT ![r].pc = "getPredictions"]
  /\ UNCHANGED env
  /\ UNCHANGED <<fights, credLog, profiles, fighterStats, opsStarted, passDone, rerun>>

\* return { resolved, errors } of a cycle
PollReturn(r) ==
  /\ InScoring(r, "return")
  /\ reqs' = [reqs EXCEPT ![r] = Idle]
  /\ UNCHANGED env
  /\ UNCHANGED <<fights, predictions, credLog, profiles, fighterStats,
                 opsStarted, passDone, rerun>>

\* --------------------------------------------------- storage that throws
\* the awaited storage statement a context is at throws (connection lost,
\* statement rejected) and has no effect: a tRPC handler ends with an error
\* response, the poller's per-fight try catches it
Throws(r) ==
  /\ ~IsIdle(r)
  /\ reqs[r].pc \notin {"fetch", "return"}
  /\ failures < MaxFailures
  /\ failures' = failures + 1
  /\ reqs' = [reqs EXCEPT ![r] = IF reqs[r].op = "poll" THEN Caught(reqs[r]) ELSE Idle]
  /\ History(r, FALSE)
  /\ UNCHANGED <<fights, predictions, credLog, profiles, fighterStats, opsStarted,
                 adminToken, alive, denied, aside>>

\* --------------------------------------------------------- odds updates
\* the odds a refresh writes: the favourite and the underdog change sides
NewOdds == { <<150, 0 - 200>> }

\* UPDATE fights SET odds1, odds2 WHERE id = fightId
updateFightOdds(fightId, odds1, odds2) ==
  [f \in DOMAIN fights |->
     IF f = fightId
       THEN [fights[f] EXCEPT !.odds1 = Some(odds1), !.odds2 = Some(odds2)]
       ELSE fights[f]]

UpdateFightOdds(r, fightId, odds) ==
  /\ CanStart(r)
  /\ opsStarted' = opsStarted + 1
  /\ fights' = updateFightOdds(fightId, odds[1], odds[2])
  /\ UNCHANGED env
  /\ UNCHANGED <<predictions, credLog, profiles, fighterStats, reqs, passDone, rerun>>

Next ==
  \/ \E r \in Reqs, u \in Users, f \in FightIds, input \in Picks : SubmitStart(r, u, f, input)
  \/ \E r \in Reqs : SubmitSelect(r)
  \/ \E r \in Reqs : SubmitWrite(r)
  \/ \E r \in Reqs, caller \in Callers, f \in FightIds : LockStart(r, caller, f)
  \/ \E r \in Reqs : LockSetLive(r)
  \/ \E r \in Reqs, caller \in Callers, f \in FightIds, result \in Results :
       ResolveStart(r, caller, f, result)
  \/ \E r \in Reqs : ResolveGetFight(r)
  \/ \E r \in Reqs : GetPredictions(r)
  \/ \E r \in Reqs : ScoreUpdatePrediction(r)
  \/ \E r \in Reqs : ScoreInsertLog(r)
  \/ \E r \in Reqs : ScoreGetProfile(r)
  \/ \E r \in Reqs : ScoreUpdateProfile(r)
  \/ \E r \in Reqs : ScoreStatSelect(r)
  \/ \E r \in Reqs : ScoreStatWrite(r)
  \/ \E r \in Reqs, throws \in BOOLEAN : PollStart(r, throws)
  \/ \E r \in Reqs, caller \in Callers, throws \in BOOLEAN : TriggerPoll(r, caller, throws)
  \/ \E r \in Reqs : PollFetch(r)
  \/ \E r \in Reqs : PollResolve(r)
  \/ \E r \in Reqs : PollLock(r)
  \/ \E r \in Reqs : PollReturn(r)
  \/ \E r \in Reqs : Throws(r)
  \/ \E r \in Reqs, f \in FightIds, odds \in NewOdds : UpdateFightOdds(r, f, odds)

Spec == Init /\ [][Next]_vars

\* ------------------------------------------------ the poller on its own
\* the steps of a cycle in context r after its pending-fights query
CycleStep(r) ==
  \/ PollFetch(r)
  \/ PollResolve(r)
  \/ PollLock(r)
  \/ GetPredictions(r)
  \/ ScoreUpdatePrediction(r)
  \/ ScoreInsertLog(r)
  \/ ScoreGetProfile(r)
  \/ ScoreUpdateProfile(r)
  \/ ScoreStatSelect(r)
  \/ ScoreStatWrite(r)
  \/ PollReturn(r)

\* the poller with its timer started and stopped, no request being served
PollerNext ==
  \/ \E r \in Reqs, throws \in BOOLEAN : StartResultPoller(r, throws)
  \/ StopResultPoller
  \/ \E r \in Reqs, throws \in BOOLEAN : PollStart(r, throws)
  \/ \E r \in Reqs : CycleStep(r)
  \/ \E r \in Reqs : Throws(r)

\* an awaited statement of a cycle settles in the end, and the event loop
\* then runs the continuation of the cycle
PollerSpec == Init /\ [][PollerNext]_vars /\ \A r \in Reqs : WF_vars(CycleStep(r))

\* ------------------------------------ fights.create and what follows it
\* the odds an admin sends to fights.create: z.number().optional() admits
\* every number, 0 among them, and a field left out (None)
CreateInputs ==
  { [odds1 |-> Some(0 - 200), odds2 |-> Some(150)],
    [odds1 |-> Some(0), odds2 |-> None] }

\* INSERT INTO fights: the new row takes the next id
createFight(data) ==
  Append(fights, [NewFight(Len(fights) + 1) EXCEPT !.odds1 = data.odds1,
                                                   !.odds2 = data.odds2])

\* fights.create: the role check, then db.createFight
CreateFight(r, caller, input) ==
  /\ CanStart(r)
  /\ Len(fights) < NumFights
  /\ opsStarted' = opsStarted + 1
  /\ IF ~Authorized(caller) THEN Unauthorized
     ELSE /\ fights' = createFight(input)
          /\ UNCHANGED env
          /\ UNCHANGED <<predictions, credLog, profiles, fighterStats, reqs, passDone, rerun>>

\* the server started on empty fights and predictions tables
InitCreate ==
  /\ fights = <<>>
  /\ predictions = <<>>
  /\ credLog = <<>>
  /\ profiles = [u \in Users |-> Some(NewProfile)]
  /\ fighterStats = <<>>
  /\ reqs = [r \in Reqs |-> Idle]
  /\ opsStarted = 0
  /\ passDone = {}
  /\ rerun = [r \in Reqs |-> 0]
  /\ adminToken = "secret"
  /\ alive = TRUE
  /\ denied = 0
  /\ failures = 0
  /\ pollerInterval = TRUE
  /\ timers = 1
  /\ calc = NoCalc

NextCreate ==
  \/ \E r \in Reqs, role \in {"user", "admin"}, input \in CreateInputs :
       CreateFight(r, [entry |-> "fights", role |-> role, token |-> ""], input)
  \/ \E r \in Reqs, u \in Users, f \in FightIds, input \in Picks : SubmitStart(r, u, f, input)
  \/ \E r \in Reqs : SubmitSelect(r)
  \/ \E r \in Reqs : SubmitWrite(r)
  \/ \E r \in Reqs, caller \in Callers, f \in FightIds, result \in Results :
       ResolveStart(r, caller, f, result)
  \/ \E r \in Reqs : ResolveGetFight(r)
  \/ \E r \in Reqs : GetPredictions(r)
  \/ \E r \in Reqs : ScoreUpdatePrediction(r)
  \/ \E r \in Reqs : ScoreInsertLog(r)
  \/ \E r \in Reqs : ScoreGetProfile(r)
  \/ \E r \in Reqs : ScoreUpdateProfile(r)
  \/ \E r \in Reqs : ScoreStatSelect(r)
  \/ \E r \in Reqs : ScoreStatWrite(r)

SpecCreate == InitCreate /\ [][NextCreate]_vars

\* ------------------------------------------- one evaluation of fuzzyMatch
\* names as the scoreboard and the fights table hold them
MatchNames ==
  {"Alpha", "Bravo", "Al", "A.", "Charlie", "Al Bravo", "Cy Bravo", "Al Charlie"}

InitMatch ==
  /\ Started
  /\ adminToken = "secret"
  /\ profiles = [u \in Users |-> Some(NewProfile)]
  /\ \E a \in MatchNames, b \in MatchNames : calc = [pc |-> "names", a |-> a, b |-> b]

\* a call of fuzzyMatch(a, b)
Match ==
  /\ calc.pc = "names"
  /\ calc' = [pc |-> "matched", a |-> calc.a, b |-> calc.b,
              result |-> fuzzyMatch(calc.a, calc.b)]
  /\ UNCHANGED <<fights, predictions, credLog, profiles, fighterStats, reqs,
                 opsStarted, passDone, rerun, adminToken, alive, denied, failures,
                 pollerInterval, timers>>

NextMatch == Match

SpecMatch == InitMatch /\ [][NextMatch]_vars

\* ------------------------------- one evaluation of the scoring functions
\* the odds of fighter 1 at which the functions are evaluated: both sides of
\* every bracket bound of the penalty and of the underdog bonus, and unknown
CalcOdds ==
  {None} \cup
  {Some(o) : o \in {0 - 301, 0 - 300, 0 - 299, 0 - 151, 0 - 150, 0 - 149,
                    0 - 111, 0 - 110, 0 - 109, 0 - 100,
                    100, 110, 111, 149, 150, 200, 225, 230}}

CalcPicks ==
  [pickedWinner : {fighter1Name, fighter2Name},
   pickedFinishType : {"finish", "decision", NULL},
   pickedMethod : {"tko_ko", "submission", NULL}]

CalcResults ==
  [winner : {fighter1Name, fighter2Name},
   finishType : {"finish", "decision"},
   method : {"tko_ko", "submission", "decision", "draw", "nc"}]

\* a new profile, and one with a score and a streak of two
CalcProfiles ==
  {NewProfile,
   [NewProfile EXCEPT !.credibilityScore = 55, !.tier = "contender",
                      !.totalPicks = 3, !.correctPicks = 2,
                      !.currentStreak = 2, !.bestStreak = 2]}

\* the arguments of an evaluation: a fight row, a prediction row on it, a
\* result and the profile row of the user
InitCalc ==
  /\ Started
  /\ adminToken = "secret"
  /\ profiles = [u \in Users |-> Some(NewProfile)]
  /\ \E odds1 \in CalcOdds, pick \in CalcPicks, result \in CalcResults,
        profile \in CalcProfiles :
       LET fight == [NewFight(1) EXCEPT !.odds1 = odds1]
       IN calc = [pc |-> "args",
                  fight |-> fight,
                  prediction |-> NewPrediction(1, 1, 1, SubmitData(fight, pick)),
                  result |-> result,
                  profile |-> profile]

\* calculateCredibility on the pick, and the loop body of a resolve and of
\* the poller on the prediction row
Calculate ==
  /\ calc.pc = "args"
  /\ LET pred == calc.prediction
     IN calc' = [calc EXCEPT !.pc = "done"] @@
          [pickedFighterOdds |-> PickedOdds(calc.fight, pred),
           breakdown |->
             calculateCredibility(
               [pickedWinner |-> pred.pickedWinner,
                pickedFinishType |-> pred.pickedFinishType,
                pickedMethod |-> pred.pickedMethod],
               calc.result, PickedOdds(calc.fight, pred)),
           router |->
             [scored |-> Scored(1, calc.fight, pred, calc.result),
              profile |-> Fold(calc.profile, calc.fight, pred, calc.result)],
           poller |->
             [scored |-> PollScored(1, calc.fight, pred, calc.result),
              profile |-> PollFold(calc.profile, calc.fight, pred, calc.result)]]
  /\ UNCHANGED <<fights, predictions, credLog, profiles, fighterStats, reqs,
                 opsStarted, passDone, rerun, adminToken, alive, denied, failures,
                 pollerInterval, timers>>

NextCalc == Calculate

SpecCalc == InitCalc /\ [][NextCalc]_vars

\* ------------------------------------------------------------ properties
LogEntriesOf(predictionId) ==
  {i \in DOMAIN credLog : credLog[i].predictionId = predictionId}

LogEntriesOfUser(userId) ==
  {i \in DOMAIN credLog : credLog[i].userId = userId}

PredictionsOfUser(userId) ==
  {i \in DOMAIN predictions : predictions[i].userId = userId}

RECURSIVE SumTotalPoints(_)
SumTotalPoints(entries) ==
  IF entries = {} THEN 0
  ELSE LET i == CHOOSE x \in entries : TRUE
       IN credLog[i].totalPoints + SumTotalPoints(entries \ {i})

\* no resolution pass (admin resolve or poll cycle) is in progress
Quiescent == \A r \in Reqs : reqs[r].op \notin {"resolve", "poll"}

\* C1: under every interleaving of the resolution entry points, each
\* prediction has at most one credibility-log entry and is folded into its
\* user's profile at most once (the profile counts no more picks than the
\* user has predictions).
C1_AtMostOnceScoring ==
  /\ \A p \in DOMAIN predictions : Cardinality(LogEntriesOf(p)) <= 1
  /\ \A u \in Users :
       profiles[u] # None =>
         profiles[u][1].totalPicks <= Cardinality(PredictionsOfUser(u))

\* C2: a resolve invoked on a fight that is already completed, with no other
\* request in flight from its start to its end, changes no profile and adds
\* no credibility-log entry in any of its steps.
C2_SecondResolveChangesNothing ==
  [][\A r \in Reqs :
       (rerun[r] # 0 /\ opsStarted' = rerun[r]) =>
         (credLog' = credLog /\ profiles' = profiles)]_vars

\* C3: in every reachable state a fight whose status is not completed has
\* winner, finishType and method all null.
C3_NoResultUntilCompleted ==
  \A f \in Fights :
    fights[f].status # "completed" =>
      /\ fights[f].winner = NULL
      /\ fights[f].finishType = NULL
      /\ fights[f].method = NULL

\* C4: once a fight's winner, finishType and method are set, no step changes
\* their values.
C4_ResultImmutable ==
  [][\A f \in Fights :
       fights[f].winner # NULL =>
         /\ fights'[f].winner = fights[f].winner
         /\ fights'[f].finishType = fights[f].finishType
         /\ fights'[f].method = fights[f].method]_vars

\* C5: once a fight's status is completed, no step moves it to another status.
C5_CompletedIsTerminal ==
  [][\A f \in Fights :
       fights[f].status = "completed" => fights'[f].status = "completed"]_vars

\* C6: once a resolution pass for a fight has run to its end, every prediction
\* stored for that fight is no longer pending and has exactly one
\* credibility-log entry.
C6_ScoredExactlyOnce ==
  \A f \in passDone :
    \A p \in DOMAIN predictions :
      predictions[p].fightId = f =>
        /\ predictions[p].status # "pending"
        /\ Cardinality(LogEntriesOf(p)) = 1

\* C7: in every quiescent state the credibilityScore of each profile equals
\* the sum of totalPoints over that user's credibility-log entries.
C7_ScoreIsSumOfLog ==
  Quiescent =>
    \A u \in Users :
      profiles[u] # None =>
        profiles[u][1].credibilityScore = SumTotalPoints(LogEntriesOfUser(u))

\* C8: when two predictions of one user on two different fights have been
\* resolved, one log entry each, both folds have taken effect once the passes
\* are over: totalPicks has grown by 2 and credibilityScore by both totalPoints.
C8_NoLostFold ==
  Quiescent =>
    \A u \in Users :
      \A i, j \in LogEntriesOfUser(u) :
        ( /\ profiles[u] # None
          /\ LogEntriesOfUser(u) = {i, j}
          /\ credLog[i].fightId # credLog[j].fightId )
        => /\ profiles[u][1].totalPicks = 2
           /\ profiles[u][1].credibilityScore =
                credLog[i].totalPoints + credLog[j].totalPoints

Counters ==
  {"totalPicks", "correctPicks", "correctFinishPicks", "totalFinishPicks",
   "correctMethodPicks", "totalMethodPicks", "correctUnderdogPicks",
   "totalUnderdogPicks", "bestStreak"}

\* C9: no step decreases a profile counter, and currentStreak only stays,
\* grows by one or resets to 0.
C9_CountersNeverDecrease ==
  [][\A u \in Users :
       profiles[u] # None =>
         /\ \A c \in Counters : profiles'[u][1][c] >= profiles[u][1][c]
         /\ profiles'[u][1].currentStreak \in
              {profiles[u][1].currentStreak, profiles[u][1].currentStreak + 1, 0}]_vars

\* C10: at most one prediction row exists per (user, fight) pair.
C10_OnePredictionPerPair ==
  \A i, j \in DOMAIN predictions :
    (i # j) =>
      ~(/\ predictions[i].userId = predictions[j].userId
        /\ predictions[i].fightId = predictions[j].fightId)

Tables == <<fights, predictions, credLog, profiles, fighterStats>>

\* C11: once a prediction has isLocked = true, no step changes its
\* pickedWinner, pickedFinishType, pickedMethod or oddsAtPrediction.
C11_LockedPickFrozen ==
  [][\A i \in DOMAIN predictions :
       predictions[i].isLocked =>
         /\ predictions'[i].pickedWinner = predictions[i].pickedWinner
         /\ predictions'[i].pickedFinishType = predictions[i].pickedFinishType
         /\ predictions'[i].pickedMethod = predictions[i].pickedMethod
         /\ predictions'[i].oddsAtPrediction = predictions[i].oddsAtPrediction]_vars

\* C12: in every reachable state every prediction of a fight whose status is
\* live or completed has isLocked = true, and no step sets isLocked back to
\* false.
C12_LockedOnceStarted ==
  /\ [](\A i \in DOMAIN predictions :
          fights[predictions[i].fightId].status \in {"live", "completed"} =>
            predictions[i].isLocked)
  /\ [][\A i \in DOMAIN predictions :
          predictions[i].isLocked => predictions'[i].isLocked]_vars

\* C13: a prediction row is inserted, or its pick changed, only in a state in
\* which its fight has status upcoming.
C13_WritesOnlyWhileUpcoming ==
  [][\A i \in DOMAIN predictions' :
       ( \/ i \notin DOMAIN predictions
         \/ predictions'[i].pickedWinner # predictions[i].pickedWinner
         \/ predictions'[i].pickedFinishType # predictions[i].pickedFinishType
         \/ predictions'[i].pickedMethod # predictions[i].pickedMethod
         \/ predictions'[i].oddsAtPrediction # predictions[i].oddsAtPrediction )
       => fights[predictions'[i].fightId].status = "upcoming"]_vars

\* C14: the credibility-log entry a pass inserts for a prediction carries the
\* points, penalty and underdog bonus computed from the prediction's
\* oddsAtPrediction snapshot, whatever the fight's odds are by then.
C14_ScoredWithSnapshotOdds ==
  [][\A r \in Reqs :
       ( /\ InScoring(r, "insertLog")
         /\ reqs'[r] # reqs[r]
         /\ Len(credLog') = Len(credLog) + 1 )
       => LET pred == Pred(r)
              snapshot == calculateCredibility(
                            [pickedWinner |-> pred.pickedWinner,
                             pickedFinishType |-> pred.pickedFinishType,
                             pickedMethod |-> pred.pickedMethod],
                            reqs[r].result, pred.oddsAtPrediction)
              entry == credLog'[Len(credLog')]
          IN /\ entry.totalPoints = snapshot.totalPoints
             /\ entry.breakdown.penalty = snapshot.penalty
             /\ entry.breakdown.underdogBonus = snapshot.underdogBonus]_vars

\* C15: in every reachable state the winner of a completed fight is one of
\* the fight's two fighter names.
C15_WinnerIsAFighter ==
  \A f \in Fights :
    fights[f].status = "completed" => fights[f].winner \in {fighter1Name, fighter2Name}

\* the writes of the loop body for one prediction
PredictionWrites == {"updatePred", "insertLog", "updateProfile", "statSelect", "statWrite"}

\* C16: when a storage write for one prediction of a resolution batch throws
\* and the process keeps running, the batch goes on with the next prediction
\* of the same fight.
C16_BatchSurvivesFailure ==
  [][\A r \in Reqs :
       ( /\ failures' = failures + 1
         /\ alive'
         /\ reqs[r].op \in {"resolve", "poll"}
         /\ reqs[r].pc \in PredictionWrites
         /\ reqs'[r] # reqs[r]
         /\ reqs[r].i < Len(reqs[r].preds) )
       => /\ reqs'[r].op = reqs[r].op
          /\ reqs'[r].fightId = reqs[r].fightId
          /\ reqs'[r].i = reqs[r].i + 1]_vars

\* C17: a resolve with an unknown fight id never gets past the lookup of the
\* fight (it ends with "Fight not found"), and none of its steps changes a
\* fight, prediction, log, profile or fighter-stat row.
C17_UnknownFightRejected ==
  /\ [](\A r \in Reqs :
          (reqs[r].op = "resolve" /\ reqs[r].fightId = UnknownFight) =>
            reqs[r].pc = "getFight")
  /\ [][\A r \in Reqs :
          ( /\ reqs'[r] # reqs[r]
            /\ \/ reqs'[r].op = "resolve" /\ reqs'[r].fightId = UnknownFight
               \/ reqs[r].op = "resolve" /\ reqs[r].fightId = UnknownFight )
          => UNCHANGED Tables]_vars

\* a resolve of the unknown fight id has run its UPDATE and is at the lookup
C17_Witness ==
  \E r \in Reqs : reqs[r].op = "resolve" /\ reqs[r].fightId = UnknownFight

\* the callers the contract calls not authorized: role not admin; token
\* absent or wrong, or no admin token configured
NotAuthorized(caller) ==
  IF caller.entry = "fights"
    THEN caller.role # "admin"
    ELSE adminToken = "" \/ caller.token = "" \/ caller.token # adminToken

\* C18: a call of fights.resolve, fights.lock, admin.resolveFight,
\* admin.lockFight or admin.triggerPoll by a caller who is not authorized
\* changes no table and starts no handler.
C18_UnauthorizedChangesNothing ==
  [][\A r \in Reqs, caller \in Callers :
       ( /\ opsStarted' = opsStarted + 1
         /\ NotAuthorized(caller)
         /\ \/ \E f \in FightIds, result \in Results : ResolveStart(r, caller, f, result)
            \/ \E f \in FightIds : LockStart(r, caller, f)
            \/ \E throws \in BOOLEAN : TriggerPoll(r, caller, throws) )
       => UNCHANGED <<Tables, reqs>>]_vars

\* a call has been answered "Unauthorized" or "Admin only"
C18_Witness == denied > 0

\* C19: when a storage statement throws while a poll cycle processes a
\* pending fight, the cycle goes on: the fight is appended to errors, resolved
\* does not count it, and the cycle continues with the next pending fight for
\* which the scoreboard has a result, or returns when there is none.
C19_PollErrorContained ==
  [][\A r \in Reqs :
       ( /\ failures' = failures + 1
         /\ alive'
         /\ reqs[r].op = "poll"
         /\ reqs'[r] # reqs[r] )
       => LET s == reqs[r]
              rest == {j \in (s.k + 1)..Len(s.pending) : s.feed[j] # None}
          IN /\ reqs'[r].op = "poll"
             /\ reqs'[r].errors = Append(s.errors, s.fightId)
             /\ reqs'[r].resolved = s.resolved
             /\ IF rest = {}
                  THEN reqs'[r].pc = "return"
                  ELSE /\ reqs'[r].pc = "pollResolve"
                       /\ reqs'[r].k \in rest
                       /\ \A j \in rest : reqs'[r].k <= j
                       /\ reqs'[r].fightId = s.pending[reqs'[r].k].id]_vars

\* a cycle has caught an error for one fight and is processing a later one
C19_Witness ==
  \E r \in Reqs :
    /\ reqs[r].op = "poll"
    /\ Len(reqs[r].errors) > 0
    /\ reqs[r].pc \in {"pollResolve", "pollLock", "getPredictions"}

\* C20: no failing poll cycle terminates the host process.
C20_PollerSurvives == alive

\* the poller's timer has been stopped while a cycle is in flight
C21_Witness ==
  /\ ~pollerInterval
  /\ \E r \in Reqs : reqs[r].op = "poll" /\ reqs[r].pc # "return"

\* C21: stopResultPoller leaves no timer armed and touches no cycle in
\* flight; while no handle is held no interval tick starts a cycle; and every
\* cycle in flight, stopped or not, runs on to its end: while the process
\* runs a cycle ends only by its return, and it does end.
C21_StopPreventsTicks ==
  /\ [][StopResultPoller => (timers' = 0 /\ reqs' = reqs)]_vars
  /\ [][~pollerInterval =>
          ~(\E r \in Reqs, throws \in BOOLEAN : PollStart(r, throws))]_vars
  /\ [][\A r \in Reqs :
          (reqs[r].op = "poll" /\ reqs'[r].op = "idle" /\ alive') =>
            reqs[r].pc = "return"]_vars
  /\ \A r \in Reqs : (reqs[r].op = "poll") ~> (IsIdle(r) \/ ~alive)

\* the conditions under which the contract lets the poller resolve a fight,
\* on what the scoreboard holds for it: an event matches, a competition in it
\* matches both fighter names, is completed and names a winner, and the
\* winner's name matches one of the two names
FeedNamesWinner(matchingESPNEvent) ==
  /\ matchingESPNEvent # None
  /\ \E i \in DOMAIN matchingESPNEvent[1].competitions :
       LET comp == matchingESPNEvent[1].competitions[i]
           names == {comp.competitors[c].displayName : c \in DOMAIN comp.competitors}
       IN /\ \E n \in names : fuzzyMatch(n, fighter1Name)
          /\ \E n \in names : fuzzyMatch(n, fighter2Name)
          /\ comp.completed
          /\ \E c \in DOMAIN comp.competitors :
               /\ comp.competitors[c].winner
               /\ \/ fuzzyMatch(comp.competitors[c].displayName, fighter1Name)
                  \/ fuzzyMatch(comp.competitors[c].displayName, fighter2Name)

\* a cycle is at its fetch
AtFetch(r) == reqs[r].op = "poll" /\ reqs[r].pc = "fetch"

\* a cycle is processing the pending fight at index k of its list
Processing(r) == reqs[r].op = "poll" /\ reqs[r].pc \notin {"fetch", "return"}

\* C22: a cycle processes a pending fight only if the scoreboard of the cycle
\* meets every condition for it.  A fight for which a condition fails is
\* skipped, whatever the response to the fetch is: the cycle goes on with a
\* fight that meets the conditions and keeps no result for a skipped one.
\* The fetch step changes no table, every later step of the cycle
\* changes only rows of the fight it is processing, resolved counts and errors
\* names only processed fights, and a cycle in which every fight is skipped
\* returns resolved = 0 and no errors.
C22_ResolvesOnlyMatchedFights ==
  /\ [](\A r \in Reqs :
          AtFetch(r) =>
            \A response \in Responses(Len(reqs[r].pending)) :
              LET n == Len(reqs[r].pending)
                  espnEvents == fetchESPNScoreboard(n, response)
                  skipped == {j \in 1..n : ~FeedNamesWinner(espnEvents[j])}
                  next == PollFetched(reqs[r], response)
              IN /\ next.pc = "pollResolve" =>
                      /\ next.k \notin skipped
                      /\ \A j \in skipped : next.feed[j] = None
                 /\ skipped = 1..n =>
                      /\ next.pc = "return"
                      /\ next.resolved = 0
                      /\ next.errors = <<>>)
  /\ [][\A r \in Reqs :
          (AtFetch(r) /\ reqs'[r] # reqs[r]) => UNCHANGED Tables]_vars
  /\ [](\A r \in Reqs :
          Processing(r) =>
            /\ reqs[r].feed[reqs[r].k] # None
            /\ reqs[r].fightId = reqs[r].pending[reqs[r].k].id)
  /\ [][\A r \in Reqs :
          (Processing(r) /\ reqs'[r] # reqs[r] /\ alive') =>
            /\ \A f \in Fights : f # reqs[r].fightId => fights'[f] = fights[f]
            /\ \A i \in DOMAIN predictions :
                 predictions[i].fightId # reqs[r].fightId => predictions'[i] = predictions[i]
            /\ \A i \in DOMAIN credLog' :
                 i \notin DOMAIN credLog => credLog'[i].fightId = reqs[r].fightId
            /\ profiles' # profiles => Pred(r).fightId = reqs[r].fightId
            /\ reqs'[r].op = "poll" =>
                 /\ reqs'[r].resolved \in {reqs[r].resolved, reqs[r].resolved + 1}
                 /\ reqs'[r].errors \in {reqs[r].errors, Append(reqs[r].errors, reqs[r].fightId)}
                 /\ reqs'[r].pc = "pollResolve" =>
                      /\ reqs'[r].k > reqs[r].k
                      /\ \A j \in (reqs[r].k + 1)..(reqs'[r].k - 1) : reqs[r].feed[j] = None]_vars

\* a cycle has skipped its first pending fight and is scoring the second
C22_Witness ==
  \E r \in Reqs :
    /\ Processing(r)
    /\ reqs[r].k = 2
    /\ reqs[r].feed[1] = None
    /\ reqs[r].pc = "getPredictions"

\* C23: the poller writes a resolution only to a fight that is pending at the
\* moment of the write: live, or upcoming and past its scheduled start.
C23_ResolvesOnlyPending ==
  [][\A r \in Reqs :
       ( /\ reqs[r].op = "poll" /\ reqs[r].pc = "pollResolve"
         /\ reqs'[r].op = "poll" /\ reqs'[r].pc = "pollLock" )
       => IsPending(fights[reqs[r].fightId])]_vars

\* C24: a cycle fetches the scoreboard at most once and only with a pending
\* fight in its list; a cycle whose query finds no pending fight changes no
\* table, fetches nothing and returns resolved = 0 and no errors.
C24_FetchOncePerCycle ==
  /\ [](\A r \in Reqs : reqs[r].op = "poll" => reqs[r].fetches <= 1)
  /\ [][\A r \in Reqs :
          (AtFetch(r) /\ reqs'[r] # reqs[r] /\ alive') =>
            /\ Len(reqs[r].pending) > 0
            /\ reqs[r].fetches = 0
            /\ reqs'[r].fetches = 1]_vars
  /\ [][\A r \in Reqs :
          (IsIdle(r) /\ reqs'[r].op = "poll" /\ PendingFrom(1) = <<>>) =>
            /\ reqs'[r].pc = "return"
            /\ reqs'[r].resolved = 0
            /\ reqs'[r].errors = <<>>
            /\ reqs'[r].fetches = 0
            /\ UNCHANGED Tables]_vars
  /\ [][\A r \in Reqs :
          (reqs[r].op = "poll" /\ reqs[r].pc = "return" /\ reqs'[r] # reqs[r]) =>
            (reqs'[r] = Idle /\ UNCHANGED Tables)]_vars

\* a cycle that found no pending fight is about to return, without a fetch
C24_Witness ==
  \E r \in Reqs : reqs[r].op = "poll" /\ reqs[r].pc = "return" /\ reqs[r].fetches = 0

\* C25: when the request for the scoreboard fails, the cycle goes on to its
\* return with resolved = 0 and no errors, the step changes no table (every
\* pending fight keeps its row) and the process keeps running.
C25_FetchFailureChangesNothing ==
  [][\A r \in Reqs :
       (AtFetch(r) /\ reqs'[r] # reqs[r] /\ PollFetchResponse(r, None)) =>
         /\ reqs'[r].pc = "return"
         /\ reqs'[r].resolved = 0
         /\ reqs'[r].errors = <<>>
         /\ UNCHANGED Tables
         /\ alive']_vars

\* a cycle whose fetch failed is about to return
C25_Witness ==
  \E r \in Reqs : reqs[r].op = "poll" /\ reqs[r].pc = "return" /\ reqs[r].fetchFailed

\* an evaluation has been made
Done == calc.pc = "done"

\* the winner of the evaluated pick is, or is not, the winner of the result
CalcCorrectWinner == calc.prediction.pickedWinner = calc.result.winner
CalcCorrectFinish == calc.prediction.pickedFinishType = calc.result.finishType

\* C26: for the same fight, prediction, result and profile, the loop body of
\* the admin paths and the loop body of the poller write the same prediction
\* status and points, the same log entry, the same profile row and the same
\* fighter-stat arguments.
C26_PathsScoreAlike == Done => calc.router = calc.poller

\* both loop bodies have scored a pick that has the winner right and the
\* method wrong, for a user with a streak
C26_Witness ==
  /\ Done
  /\ calc.poller.scored.prediction.status = "partial"
  /\ CalcCorrectWinner
  /\ calc.profile.currentStreak > 0

\* C27: when pickedWinner differs from the winner of the result,
\* calculateCredibility returns methodPoints = 0, finishTypePoints = 0 and
\* totalPoints <= 0, whatever the odds are.
C27_WrongWinnerScoresNothing ==
  (Done /\ ~CalcCorrectWinner) =>
    /\ calc.breakdown.methodPoints = 0
    /\ calc.breakdown.finishTypePoints = 0
    /\ calc.breakdown.totalPoints <= 0

\* a pick with the wrong winner and the right finish type and method
C27_Witness ==
  /\ Done
  /\ ~CalcCorrectWinner
  /\ calc.prediction.pickedFinishType = "finish"
  /\ calc.result.finishType = "finish"
  /\ calc.prediction.pickedMethod = calc.result.method

\* the penalty the contract gives for the odds of the picked side
BracketPenalty(pickedFighterOdds) ==
  CASE pickedFighterOdds = None -> 0 - 50
    [] pickedFighterOdds # None /\ pickedFighterOdds[1] <= 0 - 300 -> 0 - 100
    [] pickedFighterOdds # None /\ pickedFighterOdds[1] > 0 - 300
         /\ pickedFighterOdds[1] <= 0 - 150 -> 0 - 75
    [] pickedFighterOdds # None /\ pickedFighterOdds[1] > 0 - 150
         /\ pickedFighterOdds[1] <= 0 - 110 -> 0 - 50
    [] pickedFighterOdds # None /\ pickedFighterOdds[1] > 0 - 110
         /\ pickedFighterOdds[1] <= 110 -> 0 - 35
    [] pickedFighterOdds # None /\ pickedFighterOdds[1] > 110 -> 0 - 20

\* C28: for a wrong winner pick totalPoints is the bracket penalty of the
\* odds of the picked side, and at no larger odds does the same pick cost
\* more.
C28_PenaltyBrackets ==
  (Done /\ ~CalcCorrectWinner) =>
    /\ calc.breakdown.totalPoints = BracketPenalty(calc.pickedFighterOdds)
    /\ \A larger \in CalcOdds :
         ( /\ calc.pickedFighterOdds # None
           /\ larger # None
           /\ larger[1] >= calc.pickedFighterOdds[1] )
         => Abs(calculateCredibility(
                  [pickedWinner |-> calc.prediction.pickedWinner,
                   pickedFinishType |-> calc.prediction.pickedFinishType,
                   pickedMethod |-> calc.prediction.pickedMethod],
                  calc.result, larger).totalPoints)
              <= Abs(calc.breakdown.totalPoints)

\* a wrong pick at -150, the last odds of the -75 bracket
C28_Witness ==
  /\ Done
  /\ ~CalcCorrectWinner
  /\ calc.pickedFighterOdds = Some(0 - 150)

\* C29: for a correct winner pick totalPoints is the sum of the five parts;
\* winnerPoints is round(100 / impliedProbability); finishTypePoints is 75 or
\* 50 and only when the finish type matches; methodPoints is 75 only for a
\* matching tko_ko or submission pick; underdogBonus is round(25 * odds / 100)
\* at odds >= 150 and 0 below; perfectPickBonus is 50 only for a perfect pick;
\* and the pick at +200 by submission scores 550.
C29_CorrectPickSum ==
  (Done /\ CalcCorrectWinner) =>
    LET b == calc.breakdown
        known == calc.pickedFighterOdds # None
        odds == calc.pickedFighterOdds[1]
        p == IF known THEN getImpliedProbability(odds) ELSE <<1, 2>>
        methodMatches ==
          /\ CalcCorrectFinish
          /\ calc.result.finishType = "finish"
          /\ calc.prediction.pickedMethod = calc.result.method
          /\ calc.result.method \in {"tko_ko", "submission"}
    IN /\ b.totalPoints =
            b.winnerPoints + b.finishTypePoints + b.methodPoints
              + b.underdogBonus + b.perfectPickBonus
       /\ b.winnerPoints = RoundDiv(100 * p[2], p[1])
       /\ b.finishTypePoints \in {0, 50, 75}
       /\ b.finishTypePoints # 0 => CalcCorrectFinish
       /\ b.methodPoints \in {0, 75}
       /\ b.methodPoints = 75 => methodMatches
       /\ b.underdogBonus =
            IF known /\ odds >= 150 THEN RoundDiv(25 * odds, 100) ELSE 0
       /\ b.perfectPickBonus \in {0, 50}
       /\ b.perfectPickBonus = 50 =>
            (CalcCorrectFinish /\ (calc.result.finishType = "decision" \/ methodMatches))
       /\ ( /\ known /\ odds = 200
            /\ calc.prediction.pickedFinishType = "finish"
            /\ calc.prediction.pickedMethod = "submission"
            /\ calc.result.finishType = "finish"
            /\ calc.result.method = "submission" )
          => b.totalPoints = 550

\* the status the contract gives a scored prediction
ContractStatus(pred, result) ==
  LET winnerMatches == pred.pickedWinner = result.winner
      finishMatches == pred.pickedFinishType = result.finishType
      methodMatches == pred.pickedMethod = result.method
      correct ==
        winnerMatches /\ finishMatches /\ (result.finishType = "decision" \/ methodMatches)
  IN IF correct THEN "correct"
     ELSE IF winnerMatches \/ finishMatches THEN "partial"
     ELSE "wrong"

\* C30: the status an admin path and the poller write on a scored prediction
\* is correct iff winner and finish type match and the result is a decision
\* or the picked method is the result's; partial iff it is not correct and the
\* winner or the finish type matches; wrong otherwise; and never pending.
C30_StatusOfScoredPrediction ==
  Done =>
    \A path \in {calc.router, calc.poller} :
      /\ path.scored.prediction.status = ContractStatus(calc.prediction, calc.result)
      /\ path.scored.prediction.status # "pending"

\* a pick with the winner and the finish type right and the method wrong
C30_Witness ==
  /\ Done
  /\ CalcCorrectWinner
  /\ CalcCorrectFinish
  /\ calc.result.finishType = "finish"
  /\ calc.prediction.pickedMethod # calc.result.method

\* C31: no resolution path evaluates calculateCredibility with odds of exactly
\* 0 for the picked side: whenever a pass is about to score a prediction, the
\* odds it takes from the fight row differ from 0 (so that the points it goes
\* on to write are finite).
C31_NoZeroOddsScored ==
  \A r \in Reqs :
    InScoring(r, "updatePred") =>
      /\ PickedOdds(reqs[r].fight, Pred(r)) # Some(0)
      /\ ScoredBy(reqs[r], Pred(r)).prediction.winnerPoints # Infinity
      /\ ScoredBy(reqs[r], Pred(r)).prediction.totalPoints # Infinity

\* C32: in every state the tier of each profile is getTierFromScore of the
\* credibilityScore of the same row.
C32_TierFollowsScore ==
  \A u \in Users :
    profiles[u] # None =>
      profiles[u][1].tier = getTierFromScore(profiles[u][1].credibilityScore)

\* a fold has lifted a profile out of the rookie tier
C32_Witness ==
  \E u \in Users :
    /\ profiles[u] # None
    /\ profiles[u][1].totalPicks > 0
    /\ profiles[u][1].tier # "rookie"

\* C33: in every state bestStreak >= currentStreak, and bestStreak is the
\* largest value currentStreak has held.  Both start at 0, so the second part
\* says of every step that the new bestStreak is the larger of the old
\* bestStreak and the new currentStreak: it never falls, and it rises only to
\* a value currentStreak takes.
C33_BestStreakIsLargestHeld ==
  /\ [](\A u \in Users :
          profiles[u] # None => profiles[u][1].bestStreak >= profiles[u][1].currentStreak)
  /\ [][\A u \in Users :
          (profiles[u] # None /\ profiles'[u] # None) =>
            profiles'[u][1].bestStreak =
              Max(profiles[u][1].bestStreak, profiles'[u][1].currentStreak)]_vars

\* the points fields of a log entry are those of a breakdown
PointsOf(entry, breakdown) ==
  /\ entry.winnerPoints = breakdown.winnerPoints
  /\ entry.finishTypePoints = breakdown.finishTypePoints
  /\ entry.methodPoints = breakdown.methodPoints
  /\ entry.bonusPoints = breakdown.underdogBonus + breakdown.perfectPickBonus
  /\ entry.totalPoints = breakdown.totalPoints

\* C34: the log is append-only and grows by one entry per scored prediction.
\* Every step leaves the entries already written as they are and adds at most
\* one; the step after the UPDATE of a prediction in a pass is the insert of
\* its entry, which adds exactly one entry, for that prediction, with the
\* points of the breakdown calculateCredibility gives for it; no other step
\* adds an entry.
C34_LogAppendOnly ==
  /\ [][/\ Len(credLog') \in {Len(credLog), Len(credLog) + 1}
        /\ SubSeq(credLog', 1, Len(credLog)) = credLog]_vars
  /\ [][Len(credLog') = Len(credLog) + 1 =>
          \E r \in Reqs :
            /\ InScoring(r, "insertLog")
            /\ reqs'[r] = [reqs[r] EXCEPT !.pc = "getProfile"]
            /\ LET entry == credLog'[Len(credLog')]
               IN /\ entry.predictionId = Pred(r).id
                  /\ entry.userId = Pred(r).userId
                  /\ entry.fightId = reqs[r].fightId
                  /\ PointsOf(entry, calculateCredibility(
                         [pickedWinner |-> Pred(r).pickedWinner,
                          pickedFinishType |-> Pred(r).pickedFinishType,
                          pickedMethod |-> Pred(r).pickedMethod],
                         reqs[r].result, PickedOdds(reqs[r].fight, Pred(r))))
                  /\ PointsOf(entry, entry.breakdown)]_vars
  /\ [][\A r \in Reqs :
          (InScoring(r, "updatePred") /\ reqs'[r] # reqs[r]) =>
            \/ reqs'[r] = [reqs[r] EXCEPT !.pc = "insertLog"]
            \/ reqs'[r].op = "idle"
            \/ reqs[r].op = "poll" /\ reqs'[r] = Caught(reqs[r])]_vars
  /\ [][\A r \in Reqs :
          (InScoring(r, "insertLog") /\ reqs'[r] # reqs[r]) =>
            \/ /\ reqs'[r] = [reqs[r] EXCEPT !.pc = "getProfile"]
               /\ Len(credLog') = Len(credLog) + 1
            \/ reqs'[r].op = "idle"
            \/ reqs[r].op = "poll" /\ reqs'[r] = Caught(reqs[r])]_vars

\* the log holds two entries, the second appended after the first
C34_Witness == Len(credLog) >= 2

\* the last whitespace-delimited token of a name, in lower case
LastName(s) == toLowerCase(lastToken(Chars(s)))

\* C35: fuzzyMatch(a, b) is true whenever the last whitespace-delimited
\* tokens of a and b are equal and longer than 3 characters.
C35_SameLastNameMatches ==
  (/\ calc.pc = "matched"
   /\ LastName(calc.a) = LastName(calc.b)
   /\ Len(LastName(calc.a)) > 3)
  => calc.result

\* C36: in every state each profile counts no more correct picks than picks,
\* for the winner, the finish type, the method and the underdog picks.
C36_CorrectWithinTotal ==
  \A u \in Users :
    profiles[u] # None =>
      /\ profiles[u][1].correctPicks <= profiles[u][1].totalPicks
      /\ profiles[u][1].correctFinishPicks <= profiles[u][1].totalFinishPicks
      /\ profiles[u][1].correctMethodPicks <= profiles[u][1].totalMethodPicks
      /\ profiles[u][1].correctUnderdogPicks <= profiles[u][1].totalUnderdogPicks

\* two folds have been written to a profile while a second pass is running,
\* and a correct method pick is among them
C36_Witness ==
  \E u \in Users :
    /\ profiles[u] # None
    /\ profiles[u][1].totalPicks >= 2
    /\ profiles[u][1].correctMethodPicks >= 1
    /\ \E r \in Reqs : reqs[r].op \in {"resolve", "poll"}

\* C37: the status of both resolution paths agrees with the breakdown: it is
\* correct exactly when perfectPickBonus is 50, and it is correct, or partial
\* with the winner right, exactly when totalPoints is positive.
C37_StatusAgreesWithBreakdown ==
  Done =>
    \A path \in {calc.router, calc.poller} :
      LET status == path.scored.prediction.status
      IN /\ (status = "correct") <=> (calc.breakdown.perfectPickBonus = 50)
         /\ (status = "correct" \/ (status = "partial" /\ CalcCorrectWinner))
              <=> (calc.breakdown.totalPoints > 0)
         /\ path.scored.log.breakdown = calc.breakdown

\* a submission pick that is right in winner, finish type and method
C37_Witness ==
  /\ Done
  /\ calc.router.scored.prediction.status = "correct"
  /\ calc.result.method = "submission"
  /\ calc.breakdown.perfectPickBonus = 50
  /\ calc.breakdown.totalPoints > 0

\* the entry of the log written last for a prediction
LastEntryOf(predictionId) ==
  credLog[CHOOSE i \in LogEntriesOf(predictionId) :
            \A j \in LogEntriesOf(predictionId) : j <= i]

\* C38: when no resolution pass is running, every scored prediction has an
\* entry in the log, the points of its row are those of the entry written
\* last for it, and its bonusPoints are underdogBonus + perfectPickBonus of
\* the breakdown logged there.
C38_RowPointsAreLogPoints ==
  Quiescent =>
    \A i \in DOMAIN predictions :
      predictions[i].status # "pending" =>
        /\ LogEntriesOf(i) # {}
        /\ LET entry == LastEntryOf(i)
           IN /\ predictions[i].winnerPoints = entry.winnerPoints
              /\ predictions[i].finishTypePoints = entry.finishTypePoints
              /\ predictions[i].methodPoints = entry.methodPoints
              /\ predictions[i].bonusPoints = entry.bonusPoints
              /\ predictions[i].totalPoints = entry.totalPoints
              /\ predictions[i].bonusPoints =
                   entry.breakdown.underdogBonus + entry.breakdown.perfectPickBonus

\* a call of startResultPoller that starts the poller: a handle is held and
\* one timer is armed after it
Restart ==
  \E r \in Reqs, throws \in BOOLEAN :
    StartResultPoller(r, throws) /\ pollerInterval' /\ timers' = 1

\* C39: at most one interval timer is armed in every state, and a handle is
\* held exactly when one is.  While a handle is held no step arms a timer
\* and every cycle that begins is an interval tick, so a call of
\* startResultPoller starts nothing.  Once stopResultPoller has given the
\* handle up, a call of startResultPoller is possible and starts the poller:
\* it arms one timer and begins the immediate cycle.
C39_StartIdempotent ==
  /\ [](timers <= 1)
  /\ [](pollerInterval <=> timers = 1)
  /\ [][pollerInterval =>
          /\ timers' <= timers
          /\ (\E r \in Reqs : IsIdle(r) /\ reqs'[r].op = "poll") =>
               \E r \in Reqs, throws \in BOOLEAN : PollStart(r, throws)]_vars
  /\ [][(~pollerInterval /\ pollerInterval') =>
          /\ timers' = 1
          /\ ~alive' \/ \E r \in Reqs : IsIdle(r) /\ reqs'[r].op = "poll"]_vars
  /\ []((~pollerInterval /\ \E r \in Reqs : CanStart(r)) => ENABLED Restart)

\* stopResultPoller has given the handle up after a cycle had begun, and a
\* call of startResultPoller can start the poller again
C39_Witness ==
  /\ ~pollerInterval
  /\ timers = 0
  /\ opsStarted > 0
  /\ ENABLED Restart

====
